---- MODULE Spec2Model ----
(***************************************************************************)
(* State-machine model of the education bot (main.py, auth/auth.py,        *)
(* handlers/*.py, database.py, config.py).  The relational store is a set  *)
(* of tables (sequences of rows in rowid order); every handler is one      *)
(* action, executed to completion as python-telegram-bot dispatches one    *)
(* update at a time.                                                       *)
(***************************************************************************)
EXTENDS Integers, Sequences, FiniteSets, TLC

\* ------------------------------------------------------------------ bounds
MaxModules == 2
MaxTasks == 2
MaxSubmissions == 2
MaxUploads == 1
MaxGroups == 2
MaxTeachers == 3
MaxStudents == 4
MaxGrades == 3

\* ------------------------------------------------------- program constants
MAX_PHOTOS_PER_SUBMISSION == 5
GRADE_LOW == 0
GRADE_HIGH == 100
LEADERBOARD_TOP == 10

\* Telegram users: one who is shown the teacher keyboards, two who are shown
\* the student keyboards
TeacherUsers == {"t"}
StudentUsers == {"s1", "s2"}
Users == TeacherUsers \cup StudentUsers

\* phone numbers are sequences of characters
ADMIN_PHONE == <<"+", "9", "9", "8", "0">>
TEACHERS_GROUP_ID == "teachers_group"
PhoneT == <<"+", "9", "9", "8", "1">>
PhoneA == <<"+", "9", "9", "8", "2">>
PhoneB == <<"+", "9", "9", "8", "3">>

PhoneC == <<"+", "9", "9", "8", "4">>

\* what the teacher may type as a phone number, and what Telegram may deliver
\* as the teacher's shared contact
TeacherTexts == {<<"1">>, <<"+", "9", "9", "8", " ", "1">>}
TeacherContacts == {<<"9", "9", "8", "1">>}

\* phone numbers typed or shared while role resolution is explored: the admin
\* phone, the teacher's, a student's, and one that is registered nowhere
AuthTexts == {<<"0">>, <<"+", "9", "9", "8", " ", "1">>, <<"9", "9", "8", "-", "2">>, <<"9">>}
AuthContacts == {<<"9", "9", "8", "0">>, <<"+", "9", "9", "8", "2">>}

\* get_chat_member outcomes: a status, or the call raising
OracleAnswers == {"creator", "administrator", "member", "left", "kicked", "error"}
\* numeric-only text a user may send
GradeInputs == {0, 100, 101}

\* ---------------------------------------------------------------- config.py
IsDigit(c) == c \in {"0", "1", "2", "3", "4", "5", "6", "7", "8", "9"}

StartsWith(s, p) == Len(s) >= Len(p) /\ SubSeq(s, 1, Len(p)) = p

format_phone(phone_number) ==
    LET clean_phone == SelectSeq(phone_number, LAMBDA c : IsDigit(c) \/ c = "+")
    IN  IF StartsWith(clean_phone, <<"+">>) THEN clean_phone
        ELSE IF StartsWith(clean_phone, <<"9", "9", "8">>) THEN <<"+">> \o clean_phone
        ELSE <<"+", "9", "9", "8">> \o clean_phone

\* faulty variant: any number of the country prefix counts as the admin's
IsAdminByPrefix(phone_number) == StartsWith(phone_number, <<"+", "9", "9", "8">>)

is_admin(phone_number) == phone_number = ADMIN_PHONE

\* ------------------------------------------------------------------- state
VARIABLES
    admins,         \* admins table: set of phone numbers
    teachers,       \* teachers table: rows [id, phone_number]
    groups,         \* groups table: rows [id, channel_id, teacher_id]
    students,       \* students table: rows [id, phone_number, fullname, group_id]
    modules,        \* modules table: rows [id, group_id, module_number]
    tasks,          \* tasks table: rows [id, module_id, is_active, created_at]
    submissions,    \* submissions table: rows [id, task_id, student_id, submitted_at, is_graded]
    grades,         \* grades table: rows [id, submission_id, module_id, student_id, score, graded_at]
    user_sessions,  \* user_sessions table: user_id -> NoSession or [selected_group_id, session_type]
    user_data,      \* context.user_data of every user
    conv,           \* state of every ConversationHandler for every user
    reply,          \* what the last handler run answered, and to whom
    clock,          \* CURRENT_TIMESTAMP, advancing with every stamped insert
    session_rows,   \* user_sessions table as rows [user_id, selected_group_id, session_type]
    calls           \* session-store calls in flight: every caller's position

dbvars == <<admins, teachers, groups, students, modules, tasks, submissions, grades>>
vars == <<admins, teachers, groups, students, modules, tasks, submissions, grades,
          user_sessions, user_data, conv, reply, clock, session_rows, calls>>
\* the statement-level view of the session store, used where calls interleave
storevars == <<session_rows, calls>>

Range(s) == {s[i] : i \in DOMAIN s}

Max(S) == CHOOSE x \in S : \A y \in S : y <= x

\* INTEGER PRIMARY KEY: the next rowid is the largest one in use plus one
NextId(table) == IF table = <<>> THEN 1 ELSE Max({r.id : r \in Range(table)}) + 1

\* Python's None for a row, a phone, a role, a session
NoRow == [id |-> 0]
NoPhone == <<>>
NoRole == "none"
NoSession == [selected_group_id |-> 0, session_type |-> "absent"]

\* user_data['temp_data'] of the command-based bot when the key is absent
NoTempData == [files |-> 0, step |-> "none"]

\* context.user_data after clear(); an absent key is the empty value
EmptyUserData ==
    [user_phone |-> NoPhone, user_type |-> NoRole, available_roles |-> <<>>,
     teacher_groups |-> {}, task_description |-> FALSE,
     submitting_task |-> 0, submission_description |-> FALSE,
     submission_photos |-> 0, current_submission |-> 0,
     remaining_submissions |-> <<>>,
     teacher_name |-> FALSE, teachers_list |-> <<>>, student_name |-> FALSE,
     group_name |-> FALSE,
     conversation_state |-> "none", temp_data |-> NoTempData]

EmptyConv ==
    [auth |-> "END", admin_teacher |-> "END", admin_delete |-> "END",
     group |-> "END", student |-> "END", task |-> "END", submission |-> "END"]

NoResult == [type |-> "none", roles |-> <<>>]

\* the record of one handler run: the user, the handler, what was answered
Msg(u, h, m) ==
    [to |-> u, handler |-> h, msg |-> m, sub |-> 0, pos |-> 0, num |-> 0,
     phone |-> NoPhone, oracleT |-> "", oracleS |-> "", result |-> NoResult,
     board |-> <<>>, errors |-> {}, text |-> "none"]

\* ---------------------------------------------------------- auth/auth.py
\* SELECT * FROM teachers WHERE phone_number = ?  -> first row or None
_get_teacher_by_phone(phone_number) ==
    LET rows == SelectSeq(teachers, LAMBDA r : r.phone_number = phone_number)
    IN  IF rows = <<>> THEN NoRow ELSE rows[1]

\* SELECT * FROM students WHERE phone_number = ?  -> first row or None
_get_student_by_phone(phone_number) ==
    LET rows == SelectSeq(students, LAMBDA r : r.phone_number = phone_number)
    IN  IF rows = <<>> THEN NoRow ELSE rows[1]

_get_group_by_id(group_id) ==
    LET rows == SelectSeq(groups, LAMBDA r : r.id = group_id)
    IN  IF rows = <<>> THEN NoRow ELSE rows[1]

get_student_group(student_phone) ==
    LET student == _get_student_by_phone(student_phone)
    IN  IF student = NoRow THEN NoRow ELSE _get_group_by_id(student.group_id)

\* bot/middlewares/auth.py: member.status in ['member', 'administrator',
\* 'creator']; an exception gives False
check_group_membership(answer) ==
    IF answer = "error" THEN FALSE
    ELSE answer \in {"member", "administrator", "creator"}

\* faulty variant: an exception of get_chat_member counts as membership
CheckGroupMembershipFailOpen(answer) ==
    IF answer = "error" THEN TRUE
    ELSE answer \in {"creator", "administrator", "member"}

\* member.status in [OWNER, ADMINISTRATOR, MEMBER]; an exception gives False
_check_group_membership(answer) ==
    IF answer = "error" THEN FALSE
    ELSE answer \in {"creator", "administrator", "member"}

_check_channel_membership(answer) ==
    IF answer = "error" THEN FALSE
    ELSE answer \in {"creator", "administrator", "member"}

get_teacher_groups(teacher_phone) ==
    LET teacher == _get_teacher_by_phone(teacher_phone)
    IN  IF teacher = NoRow THEN {}
        ELSE {g.id : g \in {r \in Range(groups) : r.teacher_id = teacher.id}}

\* what a lookup that raised would hand on if its except clause were missing
Raised == [id |-> -1]

\* faulty variant: the lookup has no try/except, the error travels on
LookupUncaught(error, row) == IF error THEN Raised ELSE row

\* try: ... except Exception: return None  (the three lookups of auth.py)
Lookup(error, row) == IF error THEN NoRow ELSE row

\* the SELECTs of role resolution that may raise a storage error
Lookups == {"teachers", "students", "groups"}

\* The three role flags of get_user_type.  oracleT / oracleS are what
\* get_chat_member answers for the teachers' group and for the channel of the
\* student's group; each is consulted only when the local record was found.
\* errors holds the lookups whose SELECT raises.
RoleFlagsWith(phone_number, oracleT, oracleS, errors) ==
    LET formatted_phone == format_phone(phone_number)
        teacher_data == Lookup("teachers" \in errors,
                               _get_teacher_by_phone(formatted_phone))
        student_data == Lookup("students" \in errors,
                               _get_student_by_phone(formatted_phone))
        group_data == IF student_data \in {NoRow, Raised} THEN NoRow
                      ELSE Lookup("groups" \in errors,
                                  _get_group_by_id(student_data.group_id))
    IN  [is_admin |-> is_admin(formatted_phone),
         is_teacher |-> /\ teacher_data # NoRow
                        /\ _check_group_membership(oracleT),
         is_student |-> /\ student_data # NoRow
                        /\ group_data # NoRow
                        /\ _check_channel_membership(oracleS),
         raised |-> Raised \in {teacher_data, student_data, group_data}]

RoleFlags(phone_number, oracleT, oracleS) ==
    RoleFlagsWith(phone_number, oracleT, oracleS, {})

role_count(f) ==
    (IF f.is_admin THEN 1 ELSE 0) + (IF f.is_teacher THEN 1 ELSE 0)
        + (IF f.is_student THEN 1 ELSE 0)

\* faulty variant: the list is built student first
AvailableRolesStudentFirst(f) ==
    (IF f.is_student THEN <<"student">> ELSE <<>>)
        \o (IF f.is_teacher THEN <<"teacher">> ELSE <<>>)
        \o (IF f.is_admin THEN <<"admin">> ELSE <<>>)

available_roles(f) ==
    (IF f.is_admin THEN <<"admin">> ELSE <<>>)
        \o (IF f.is_teacher THEN <<"teacher">> ELSE <<>>)
        \o (IF f.is_student THEN <<"student">> ELSE <<>>)

\* The value get_user_type returns: None ("none"), one role name ("single"),
\* or the dict {'type': 'dual_role', 'available_roles': [...]}; "raised" when
\* an exception leaves the function.
get_user_type_with(phone_number, oracleT, oracleS, errors) ==
    LET f == RoleFlagsWith(phone_number, oracleT, oracleS, errors)
    IN  IF f.raised THEN [type |-> "raised", roles |-> <<>>]
        ELSE IF role_count(f) = 0 THEN [type |-> "none", roles |-> <<>>]
        ELSE IF role_count(f) = 1
             THEN [type |-> "single",
                   roles |-> IF f.is_admin THEN <<"admin">>
                             ELSE IF f.is_teacher THEN <<"teacher">>
                             ELSE <<"student">>]
        ELSE [type |-> "dual_role", roles |-> available_roles(f)]

get_user_type(phone_number, oracleT, oracleS) ==
    get_user_type_with(phone_number, oracleT, oracleS, {})

\* faulty variant: the admins table is never written
EnsureAdminSkipped(phone_number, oracleT, oracleS) == admins

\* _ensure_admin_exists runs on both branches that return a role when the
\* admin flag is set: SELECT, then INSERT when no row was found
_ensure_admin_exists(phone_number, oracleT, oracleS) ==
    LET f == RoleFlags(phone_number, oracleT, oracleS)
    IN  IF f.is_admin /\ role_count(f) >= 1
        THEN admins \cup {format_phone(phone_number)}
        ELSE admins

\* DELETE, then INSERT; the INSERT raises for a group that is gone (foreign
\* key; NULL, written 0, is allowed), the except clause prints and returns,
\* and the row deleted before stays deleted
set_user_session(user_id, group_id, session_type) ==
    [user_sessions EXCEPT ![user_id] =
        IF group_id # 0 /\ _get_group_by_id(group_id) = NoRow THEN NoSession
        ELSE [selected_group_id |-> group_id, session_type |-> session_type]]

get_user_session(user_id) == user_sessions[user_id]

clear_user_session(user_id) == [user_sessions EXCEPT ![user_id] = NoSession]

\* ---------------------------------- the session store, statement by statement
\* Every db.execute_query opens its own connection and commits (database.py
\* 144-166), so set_user_session is two transactions: a DELETE, then an INSERT.
Callers == {"p", "q"}
SessionUsers == {"t", "s1"}
SessionTypes == {"normal", "grading"}

NoCall == [op |-> "none", user_id |-> "", selected_group_id |-> 0, session_type |-> ""]
\* a caller: where it stands, the call it runs or ran last, what the last
\* SELECT returned (a session, or a number), whether its last statement
\* raised, and the call it completed before
IdleCall ==
    [pc |-> "idle", call |-> NoCall, result |-> NoSession, prev |-> NoCall,
     read |-> 0, raised |-> FALSE]
StoreIdle == session_rows = <<>> /\ calls = [p \in Callers |-> IdleCall]

RowsOf(rows, user_id) == SelectSeq(rows, LAMBDA r : r.user_id = user_id)

\* faulty variant: the DELETE of the old row is left out
DeleteNothing(rows, user_id) == rows

\* DELETE FROM user_sessions WHERE user_id = ?
DeleteSession(rows, user_id) == SelectSeq(rows, LAMBDA r : r.user_id # user_id)

\* faulty variant: user_id is no key, the INSERT always adds a row
InsertSessionNoKey(rows, row) ==
    IF _get_group_by_id(row.selected_group_id) = NoRow THEN rows
    ELSE Append(rows, row)

\* INSERT INTO user_sessions: user_id is the PRIMARY KEY and selected_group_id
\* references groups, so the statement raises on a second row for the user or
\* on an unknown group; set_user_session swallows the exception
InsertSession(rows, row) ==
    IF RowsOf(rows, row.user_id) # <<>> \/ _get_group_by_id(row.selected_group_id) = NoRow
    THEN rows
    ELSE Append(rows, row)

\* faulty variant: the WHERE clause is missing
SelectAnySession(rows, user_id) ==
    IF rows = <<>> THEN NoSession
    ELSE [selected_group_id |-> rows[1].selected_group_id,
          session_type |-> rows[1].session_type]

\* SELECT * FROM user_sessions WHERE user_id = ?; sessions[0] or None
SelectSession(rows, user_id) ==
    LET sessions == RowsOf(rows, user_id)
    IN  IF sessions = <<>> THEN NoSession
        ELSE [selected_group_id |-> sessions[1].selected_group_id,
              session_type |-> sessions[1].session_type]

Begin(p, call) ==
    [calls[p] EXCEPT !.call = call, !.prev = calls[p].call]

\* set_user_session, first statement
SetSessionDelete(p, user_id, group_id, session_type) ==
    /\ calls[p].pc = "idle"
    /\ session_rows' = DeleteSession(session_rows, user_id)
    /\ calls' = [calls EXCEPT ![p] =
           [Begin(p, [op |-> "set", user_id |-> user_id,
                      selected_group_id |-> group_id, session_type |-> session_type])
            EXCEPT !.pc = "INSERT"]]
    /\ UNCHANGED <<dbvars, user_sessions, user_data, conv, reply, clock>>

\* set_user_session, second statement
SetSessionInsert(p) ==
    /\ calls[p].pc = "INSERT"
    /\ session_rows' = InsertSession(session_rows,
           [user_id |-> calls[p].call.user_id,
            selected_group_id |-> calls[p].call.selected_group_id,
            session_type |-> calls[p].call.session_type])
    /\ calls' = [calls EXCEPT ![p].pc = "idle"]
    /\ UNCHANGED <<dbvars, user_sessions, user_data, conv, reply, clock>>

\* get_user_session: one SELECT
GetSession(p, user_id) ==
    /\ calls[p].pc = "idle"
    /\ calls' = [calls EXCEPT ![p] =
           [Begin(p, [NoCall EXCEPT !.op = "get", !.user_id = user_id])
            EXCEPT !.result = SelectSession(session_rows, user_id)]]
    /\ UNCHANGED <<dbvars, user_sessions, user_data, conv, reply, clock, session_rows>>

\* clear_user_session: one DELETE
ClearSession(p, user_id) ==
    /\ calls[p].pc = "idle"
    /\ session_rows' = DeleteSession(session_rows, user_id)
    /\ calls' = [calls EXCEPT ![p] =
           Begin(p, [NoCall EXCEPT !.op = "clear", !.user_id = user_id])]
    /\ UNCHANGED <<dbvars, user_sessions, user_data, conv, reply, clock>>

\* ------------------------------------------------- queries of the handlers
GroupOfModule(module_id) ==
    LET rows == SelectSeq(modules, LAMBDA r : r.id = module_id)
    IN  IF rows = <<>> THEN 0 ELSE rows[1].group_id

GroupOfTask(task_id) ==
    LET rows == SelectSeq(tasks, LAMBDA r : r.id = task_id)
    IN  IF rows = <<>> THEN 0 ELSE GroupOfModule(rows[1].module_id)

ModulesOfGroup(group_id) == SelectSeq(modules, LAMBDA r : r.group_id = group_id)

\* faulty variant: ORDER BY module_number ASC, the group's first module
GetFirstModule(group_id) ==
    LET rows == ModulesOfGroup(group_id)
    IN  IF rows = <<>> THEN NoRow
        ELSE CHOOSE r \in Range(rows) :
                 \A q \in Range(rows) : q.module_number >= r.module_number

\* SELECT * FROM modules WHERE group_id = ? ORDER BY module_number DESC LIMIT 1
_get_current_module(group_id) ==
    LET rows == ModulesOfGroup(group_id)
    IN  IF rows = <<>> THEN NoRow
        ELSE CHOOSE r \in Range(rows) :
                 \A q \in Range(rows) : q.module_number <= r.module_number

\* faulty variant: the maximum is taken over the modules of every group
NextModuleNumberAnyGroup(group_id) ==
    IF modules = <<>> THEN 1
    ELSE Max({r.module_number : r \in Range(modules)}) + 1

\* SELECT MAX(module_number) ... WHERE group_id = ?; next is 1 or max + 1
NextModuleNumber(group_id) ==
    LET rows == ModulesOfGroup(group_id)
    IN  IF rows = <<>> THEN 1
        ELSE Max({r.module_number : r \in Range(rows)}) + 1

\* faulty variant: the table has no uniqueness constraint
ModuleUniqueDropped(group_id, module_number) == TRUE

\* UNIQUE(group_id, module_number)
ModuleUniqueOk(group_id, module_number) ==
    \A r \in Range(modules) :
        ~(r.group_id = group_id /\ r.module_number = module_number)

\* SELECT t.* FROM tasks t JOIN modules m ... WHERE m.group_id = ? AND
\* t.is_active = TRUE ORDER BY t.created_at DESC LIMIT 1
_get_active_task(group_id) ==
    LET rows == SelectSeq(tasks, LAMBDA r : GroupOfTask(r.id) = group_id /\ r.is_active)
    IN  IF rows = <<>> THEN NoRow
        ELSE CHOOSE r \in Range(rows) :
                 \A q \in Range(rows) : q.created_at <= r.created_at

\* faulty variant: only the tasks of the current module are deactivated
DeactivateTasksOfModule(group_id) ==
    [i \in DOMAIN tasks |->
        IF tasks[i].module_id = _get_current_module(group_id).id
        THEN [tasks[i] EXCEPT !.is_active = FALSE] ELSE tasks[i]]

\* UPDATE tasks SET is_active = FALSE WHERE module_id IN
\*   (SELECT id FROM modules WHERE group_id = ?)
DeactivateTasks(group_id) ==
    [i \in DOMAIN tasks |->
        IF GroupOfModule(tasks[i].module_id) = group_id
        THEN [tasks[i] EXCEPT !.is_active = FALSE] ELSE tasks[i]]

\* SELECT * FROM submissions WHERE task_id = ? AND student_id = ?
_get_student_submission(task_id, student_id) ==
    LET rows == SelectSeq(submissions,
                          LAMBDA r : r.task_id = task_id /\ r.student_id = student_id)
    IN  IF rows = <<>> THEN NoRow ELSE rows[1]

\* faulty variant: the table has no uniqueness constraint
SubmissionUniqueDropped(task_id, student_id) == TRUE

\* UNIQUE(task_id, student_id) of the submissions table
SubmissionUniqueOk(task_id, student_id) ==
    \A r \in Range(submissions) :
        ~(r.task_id = task_id /\ r.student_id = student_id)

\* UNIQUE(submission_id) of the grades table
GradeUniqueOk(submission_id) ==
    \A r \in Range(grades) : r.submission_id # submission_id

\* rows of a table in ascending order of submitted_at (ORDER BY ... ASC)
RECURSIVE OrderBySubmittedAt(_)
OrderBySubmittedAt(rows) ==
    IF rows = {} THEN <<>>
    ELSE LET first == CHOOSE r \in rows :
                          \A q \in rows : r.submitted_at <= q.submitted_at
         IN  <<first>> \o OrderBySubmittedAt(rows \ {first})

\* SELECT s.* FROM submissions s JOIN tasks t JOIN modules m
\*   WHERE m.group_id = ? AND s.is_graded = FALSE ORDER BY s.submitted_at ASC
UngradedOfGroup(table, group_id) ==
    OrderBySubmittedAt({r \in Range(table) :
                           GroupOfTask(r.task_id) = group_id /\ ~r.is_graded})

\* faulty variant: the position is taken among every submission of the
\* group, graded or not
QueuePositionAmongAll(table, student_id, group_id) ==
    LET everything == OrderBySubmittedAt({r \in Range(table) :
                                             GroupOfTask(r.task_id) = group_id})
        hits == {i \in DOMAIN everything : everything[i].student_id = student_id}
    IN  IF hits = {} THEN 0 ELSE CHOOSE i \in hits : \A j \in hits : i <= j

\* index (from 1) of the first queue entry of the student, 0 when there is none
_get_queue_position(table, student_id, group_id) ==
    LET ungraded == UngradedOfGroup(table, group_id)
        hits == {i \in DOMAIN ungraded : ungraded[i].student_id = student_id}
    IN  IF hits = {} THEN 0 ELSE CHOOSE i \in hits : \A j \in hits : i <= j

\* ------------------------------------------------------------------- Init
\* The store after the admin registered one teacher and the teacher created
\* two groups, enrolled two students in the first and one in the second.
Roster ==
    /\ admins = {}
    /\ teachers = <<[id |-> 1, phone_number |-> PhoneT]>>
    /\ groups = <<[id |-> 1, channel_id |-> "c1", teacher_id |-> 1],
                  [id |-> 2, channel_id |-> "c2", teacher_id |-> 1]>>
    /\ students = <<[id |-> 1, phone_number |-> PhoneA, fullname |-> "Ali", group_id |-> 1],
                    [id |-> 2, phone_number |-> PhoneB, fullname |-> "Vali", group_id |-> 1],
                    [id |-> 3, phone_number |-> PhoneC, fullname |-> "Sami", group_id |-> 2]>>

\* Nobody has sent /start yet; no module exists.
Init ==
    /\ Roster
    /\ modules = <<>>
    /\ tasks = <<>>
    /\ submissions = <<>>
    /\ grades = <<>>
    /\ user_sessions = [u \in Users |-> NoSession]
    /\ user_data = [u \in Users |-> EmptyUserData]
    /\ conv = [u \in Users |-> EmptyConv]
    /\ reply = Msg("t", "none", "none")
    /\ clock = 0
    /\ StoreIdle

\* --------------------------------------------------- dispatch (main.py 167-213)
\* Handlers are tried in registration order; a ConversationHandler that is in
\* a state for the user takes every text message before later handlers see it.
InAuthConv(u) == conv[u].auth = "WAITING_PHONE"
AdminConvFree(u) ==
    /\ conv[u].auth = "END"
    /\ conv[u].admin_teacher = "END"
    /\ conv[u].admin_delete = "END"
GroupConvFree(u) == AdminConvFree(u) /\ conv[u].group = "END"
BeforeTaskConv(u) == GroupConvFree(u) /\ conv[u].student = "END"
TaskConvFree(u) == BeforeTaskConv(u) /\ conv[u].task = "END"
Idle(u) == TaskConvFree(u) /\ conv[u].submission = "END"

\* ------------------------------------------------------------------ main.py
start_command(u) ==
    /\ user_data' = [user_data EXCEPT ![u] = EmptyUserData]
    /\ conv' = [conv EXCEPT ![u].auth = "WAITING_PHONE"]
    /\ reply' = Msg(u, "start_command", "welcome")
    /\ UNCHANGED <<dbvars, user_sessions, clock, storevars>>

\* _authenticate_user, with _activate_role for a single role and
\* _show_role_selection for several
_authenticate_user(u, h, phone_number, oracleT, oracleS) ==
    LET auth_result == get_user_type(phone_number, oracleT, oracleS)
        role == IF auth_result.type = "single" THEN auth_result.roles[1] ELSE NoRole
    IN  /\ admins' = _ensure_admin_exists(phone_number, oracleT, oracleS)
        /\ user_data' = [user_data EXCEPT
               ![u].user_phone = phone_number,
               ![u].available_roles =
                   IF auth_result.type = "dual_role" THEN auth_result.roles ELSE @,
               ![u].user_type = IF auth_result.type = "single" THEN role ELSE @]
        \* show_teacher_menu clears the session
        /\ user_sessions' = IF role = "teacher" THEN clear_user_session(u)
                            ELSE user_sessions
        /\ reply' = [Msg(u, h,
                         IF auth_result.type = "none" THEN "auth_failed"
                         ELSE IF auth_result.type = "dual_role" THEN "role_selection"
                         ELSE "welcome_role")
                     EXCEPT !.phone = phone_number, !.oracleT = oracleT,
                            !.oracleS = oracleS, !.result = auth_result]
        /\ conv' = [conv EXCEPT ![u].auth = "END"]
        /\ UNCHANGED <<teachers, groups, students, modules, tasks, submissions,
                       grades, clock, storevars>>

receive_phone_text(u, text, oracleT, oracleS) ==
    /\ InAuthConv(u)
    /\ _authenticate_user(u, "receive_phone_text", format_phone(text), oracleT, oracleS)

receive_phone_contact(u, contact, oracleT, oracleS) ==
    /\ InAuthConv(u)
    /\ _authenticate_user(u, "receive_phone_contact",
                          IF StartsWith(contact, <<"+">>) THEN contact
                          ELSE <<"+">> \o contact,
                          oracleT, oracleS)

\* handle_text_message with the main-menu text: _show_main_menu
show_main_menu(u) ==
    /\ Idle(u)
    /\ user_data[u].available_roles = <<>>
    /\ user_sessions' = IF user_data[u].user_type = "teacher"
                        THEN clear_user_session(u) ELSE user_sessions
    /\ reply' = Msg(u, "show_main_menu",
                    IF user_data[u].user_type = NoRole THEN "auth_failed" ELSE "menu")
    /\ UNCHANGED <<dbvars, user_data, conv, clock, storevars>>

\* the role buttons, and a text that is none of them
RoleButtons == {"admin", "teacher", "student", "other"}

\* faulty variant: every role button is accepted, eligible or not
RoleAcceptedAny(selected_role, offered) ==
    selected_role \in {"admin", "teacher", "student"}

\* role_mapping.get(selected_text) is a role and that role is in available_roles
RoleAccepted(selected_role, offered) ==
    selected_role \in {"admin", "teacher", "student"} \cap Range(offered)

\* handle_text_message, priority 1: while 'available_roles' is in user_data every
\* text that reaches the generic handler is a role choice.  _activate_role
\* sets user_type and shows the role's menu; show_teacher_menu clears the session.
_handle_role_selection(u, selected_role) ==
    /\ Idle(u)
    /\ user_data[u].available_roles # <<>>
    /\ IF RoleAccepted(selected_role, user_data[u].available_roles)
       THEN /\ user_data' = [user_data EXCEPT ![u].user_type = selected_role,
                                              ![u].available_roles = <<>>]
            /\ user_sessions' = IF selected_role = "teacher"
                                THEN clear_user_session(u) ELSE user_sessions
            /\ reply' = [Msg(u, "_handle_role_selection", "welcome_role")
                         EXCEPT !.result = [type |-> "single",
                                            roles |-> <<selected_role>>]]
       ELSE /\ reply' = Msg(u, "_handle_role_selection", "wrong_choice")
            /\ UNCHANGED <<user_data, user_sessions>>
    /\ UNCHANGED <<dbvars, conv, clock, storevars>>

\* handle_text_message, priority 3: the resolution is run again; a multi-role
\* result stores available_roles and shows the selection, user_type is not touched
_handle_role_switch(u, oracleT, oracleS) ==
    /\ Idle(u)
    /\ user_data[u].available_roles = <<>>
    /\ LET user_phone == user_data[u].user_phone
           auth_result == get_user_type(user_phone, oracleT, oracleS)
       IN  IF user_phone = NoPhone
           THEN /\ reply' = Msg(u, "_handle_role_switch", "verify_phone_first")
                /\ UNCHANGED <<admins, user_data>>
           ELSE /\ admins' = _ensure_admin_exists(user_phone, oracleT, oracleS)
                /\ user_data' = [user_data EXCEPT ![u].available_roles =
                       IF auth_result.type = "dual_role" THEN auth_result.roles ELSE @]
                /\ reply' = [Msg(u, "_handle_role_switch",
                                 IF auth_result.type = "dual_role"
                                 THEN "role_selection" ELSE "only_one_role")
                             EXCEPT !.phone = user_phone, !.oracleT = oracleT,
                                    !.oracleS = oracleS, !.result = auth_result]
    /\ UNCHANGED <<teachers, groups, students, modules, tasks, submissions,
                   grades, user_sessions, conv, clock, storevars>>

\* ----------------------------------------------- handlers/admin_handlers.py
\* entry point of admin_teacher_conversation; only the authentication
\* conversation is registered before it
start_create_teacher(u) ==
    /\ conv[u].auth = "END"
    /\ conv[u].admin_teacher = "END"
    /\ conv' = [conv EXCEPT ![u].admin_teacher = "WAITING_TEACHER_NAME"]
    /\ reply' = Msg(u, "start_create_teacher", "enter_teacher_name")
    /\ UNCHANGED <<dbvars, user_sessions, user_data, clock, storevars>>

\* cancel_operation: user_data.clear(), then the admin menu
AdminCancel(u, h, c) ==
    /\ user_data' = [user_data EXCEPT ![u] = EmptyUserData]
    /\ conv' = [conv EXCEPT ![u][c] = "END"]
    /\ reply' = Msg(u, h, "cancelled")
    /\ UNCHANGED <<dbvars, user_sessions, clock, storevars>>

receive_teacher_name(u, message) ==
    /\ conv[u].auth = "END"
    /\ conv[u].admin_teacher = "WAITING_TEACHER_NAME"
    /\ IF message = "cancel"
       THEN AdminCancel(u, "receive_teacher_name", "admin_teacher")
       ELSE /\ user_data' = [user_data EXCEPT ![u].teacher_name = TRUE]
            /\ conv' = [conv EXCEPT ![u].admin_teacher = "WAITING_TEACHER_PHONE"]
            /\ reply' = Msg(u, "receive_teacher_name", "enter_teacher_phone")
            /\ UNCHANGED <<dbvars, user_sessions, clock, storevars>>

\* phone numbers an admin may type for a new teacher, and the cancel button
CancelText == <<"c", "a", "n", "c", "e", "l">>
TeacherPhoneTexts == {CancelText, <<"9", "9", "8", "4">>, <<"+", "9", "9", "8", " ", "1">>}

\* SELECT id FROM teachers WHERE phone_number = ?; INSERT INTO teachers.
\* user_data.clear() only after a successful insert; the conversation always ends.
receive_teacher_phone(u, teacher_phone) ==
    /\ conv[u].auth = "END"
    /\ conv[u].admin_teacher = "WAITING_TEACHER_PHONE"
    /\ IF teacher_phone = CancelText
       THEN AdminCancel(u, "receive_teacher_phone", "admin_teacher")
       ELSE LET formatted_phone == format_phone(teacher_phone)
                existing_teacher == SelectSeq(teachers,
                    LAMBDA r : r.phone_number = formatted_phone)
            IN  /\ IF existing_teacher # <<>>
                   THEN /\ reply' = [Msg(u, "receive_teacher_phone", "teacher_exists")
                                     EXCEPT !.phone = formatted_phone]
                        /\ UNCHANGED <<teachers, user_data>>
                   ELSE /\ NextId(teachers) <= MaxTeachers
                        /\ teachers' = Append(teachers,
                               [id |-> NextId(teachers), phone_number |-> formatted_phone])
                        /\ user_data' = [user_data EXCEPT ![u] = EmptyUserData]
                        /\ reply' = [Msg(u, "receive_teacher_phone", "teacher_created")
                                     EXCEPT !.phone = formatted_phone]
                /\ conv' = [conv EXCEPT ![u].admin_teacher = "END"]
                /\ UNCHANGED <<admins, groups, students, modules, tasks, submissions,
                               grades, user_sessions, clock, storevars>>

\* SELECT * FROM teachers ORDER BY created_at DESC
view_all_teachers(u) ==
    /\ Idle(u)
    /\ reply' = [Msg(u, "view_all_teachers",
                     IF teachers = <<>> THEN "no_teachers" ELSE "teachers")
                 EXCEPT !.num = Len(teachers)]
    /\ UNCHANGED <<dbvars, user_sessions, user_data, conv, clock, storevars>>

\* entry point of admin_delete_conversation
start_delete_teacher(u) ==
    /\ AdminConvFree(u)
    /\ IF teachers = <<>>
       THEN /\ reply' = Msg(u, "start_delete_teacher", "no_teachers")
            /\ UNCHANGED <<user_data, conv>>
       ELSE /\ user_data' = [user_data EXCEPT ![u].teachers_list = teachers]
            /\ conv' = [conv EXCEPT ![u].admin_delete = "CONFIRMING_DELETE"]
            /\ reply' = Msg(u, "start_delete_teacher", "choose_teacher")
    /\ UNCHANGED <<dbvars, user_sessions, clock, storevars>>

\* ON DELETE CASCADE from teachers down to grades (database.py 43-122) and
\* ON DELETE SET NULL on user_sessions.selected_group_id (database.py 131)
GroupsOfTeacher(teacher_id) ==
    {r.id : r \in {g \in Range(groups) : g.teacher_id = teacher_id}}

DeleteTeacherCascade(teacher_id) ==
    LET gone == GroupsOfTeacher(teacher_id)
        modules2 == SelectSeq(modules, LAMBDA r : r.group_id \notin gone)
        students2 == SelectSeq(students, LAMBDA r : r.group_id \notin gone)
        moduleIds == {r.id : r \in Range(modules2)}
        studentIds == {r.id : r \in Range(students2)}
        tasks2 == SelectSeq(tasks, LAMBDA r : r.module_id \in moduleIds)
        taskIds == {r.id : r \in Range(tasks2)}
        submissions2 == SelectSeq(submissions,
            LAMBDA r : r.task_id \in taskIds /\ r.student_id \in studentIds)
        submissionIds == {r.id : r \in Range(submissions2)}
    IN  /\ teachers' = SelectSeq(teachers, LAMBDA r : r.id # teacher_id)
        /\ groups' = SelectSeq(groups, LAMBDA r : r.teacher_id # teacher_id)
        /\ modules' = modules2
        /\ students' = students2
        /\ tasks' = tasks2
        /\ submissions' = submissions2
        /\ grades' = SelectSeq(grades, LAMBDA r : r.submission_id \in submissionIds)
        /\ user_sessions' = [v \in DOMAIN user_sessions |->
               IF user_sessions[v] # NoSession
                  /\ user_sessions[v].selected_group_id \in gone
               THEN [user_sessions[v] EXCEPT !.selected_group_id = 0]
               ELSE user_sessions[v]]

\* the buttons offered are the rows stored in user_data['teachers_list']
confirm_delete_teacher(u, selected_text) ==
    /\ conv[u].auth = "END"
    /\ conv[u].admin_teacher = "END"
    /\ conv[u].admin_delete = "CONFIRMING_DELETE"
    /\ IF selected_text = CancelText
       THEN AdminCancel(u, "confirm_delete_teacher", "admin_delete")
       ELSE LET matching == SelectSeq(user_data[u].teachers_list,
                                LAMBDA r : r.phone_number = selected_text)
            IN  IF matching = <<>>
                THEN /\ reply' = Msg(u, "confirm_delete_teacher", "wrong_choice")
                     /\ UNCHANGED <<dbvars, user_sessions, user_data, conv, clock, storevars>>
                ELSE /\ DeleteTeacherCascade(matching[1].id)
                     /\ user_data' = [user_data EXCEPT ![u] = EmptyUserData]
                     /\ conv' = [conv EXCEPT ![u].admin_delete = "END"]
                     /\ reply' = [Msg(u, "confirm_delete_teacher", "teacher_deleted")
                                  EXCEPT !.phone = selected_text]
                     /\ UNCHANGED <<admins, clock, storevars>>

\* --------------------------------------------- handlers/teacher_handlers.py
show_my_groups(u) ==
    /\ Idle(u)
    /\ LET teacher_phone == user_data[u].user_phone
           my_groups == get_teacher_groups(teacher_phone)
       IN  IF teacher_phone = NoPhone
           THEN /\ reply' = Msg(u, "show_my_groups", "phone_not_found")
                /\ UNCHANGED user_data
           ELSE IF my_groups = {}
           THEN /\ reply' = Msg(u, "show_my_groups", "no_groups")
                /\ UNCHANGED user_data
           ELSE /\ reply' = Msg(u, "show_my_groups", "groups")
                /\ user_data' = [user_data EXCEPT ![u].teacher_groups = my_groups]
    /\ UNCHANGED <<dbvars, user_sessions, conv, clock, storevars>>

\* handle_text_message routes a group button to select_group for teachers only
select_group(u, group_id) ==
    /\ Idle(u)
    /\ user_data[u].available_roles = <<>>
    /\ user_data[u].user_type = "teacher"
    /\ IF group_id \in user_data[u].teacher_groups
       THEN /\ user_sessions' = set_user_session(u, group_id, "normal")
            /\ reply' = Msg(u, "select_group", "group_menu")
       ELSE /\ reply' = Msg(u, "select_group", "wrong_choice")
            /\ UNCHANGED user_sessions
    /\ UNCHANGED <<dbvars, user_data, conv, clock, storevars>>

\* faulty variant: the test for a missing session is left out
SessionMissingIgnored(session) == FALSE

\* "if not session": get_user_session returned None
SessionMissing(session) == session = NoSession

create_new_module(u) ==
    /\ Idle(u)
    /\ LET session == get_user_session(u)
           group_id == session.selected_group_id
           next_module_number == NextModuleNumber(group_id)
       IN  IF SessionMissing(session)
           THEN /\ reply' = Msg(u, "create_new_module", "no_group_selected")
                /\ UNCHANGED modules
           ELSE IF ModuleUniqueOk(group_id, next_module_number)
                   /\ _get_group_by_id(group_id) # NoRow
           THEN /\ Len(modules) < MaxModules
                /\ modules' = Append(modules,
                       [id |-> NextId(modules), group_id |-> group_id,
                        module_number |-> next_module_number])
                /\ reply' = [Msg(u, "create_new_module", "module_created")
                             EXCEPT !.num = next_module_number]
           ELSE /\ reply' = Msg(u, "create_new_module", "something_wrong")
                /\ UNCHANGED modules
    /\ UNCHANGED <<admins, teachers, groups, students, tasks, submissions, grades,
                   user_sessions, user_data, conv, clock, storevars>>

start_create_task(u) ==
    /\ TaskConvFree(u)
    /\ LET session == get_user_session(u)
       IN  IF SessionMissing(session)
           THEN /\ reply' = Msg(u, "start_create_task", "no_group_selected")
                /\ UNCHANGED conv
           ELSE IF _get_current_module(session.selected_group_id) = NoRow
           THEN /\ reply' = Msg(u, "start_create_task", "module_needed")
                /\ UNCHANGED conv
           ELSE /\ reply' = Msg(u, "start_create_task", "enter_task_description")
                /\ conv' = [conv EXCEPT ![u].task = "WAITING_TASK_DESCRIPTION"]
    /\ UNCHANGED <<dbvars, user_sessions, user_data, clock, storevars>>

\* cancel_operation: user_data.clear(), then show_teacher_menu clears the session
TeacherCancelIn(u, h, c) ==
    /\ user_data' = [user_data EXCEPT ![u] = EmptyUserData]
    /\ user_sessions' = clear_user_session(u)
    /\ conv' = [conv EXCEPT ![u][c] = "END"]
    /\ reply' = Msg(u, h, "cancelled")
    /\ UNCHANGED <<dbvars, clock, storevars>>

TeacherCancel(u, h) == TeacherCancelIn(u, h, "task")

\* entry point of teacher_group_conversation
start_create_group(u) ==
    /\ GroupConvFree(u)
    /\ conv' = [conv EXCEPT ![u].group = "WAITING_GROUP_NAME"]
    /\ reply' = Msg(u, "start_create_group", "enter_group_name")
    /\ UNCHANGED <<dbvars, user_sessions, user_data, clock, storevars>>

receive_group_name(u, text) ==
    /\ AdminConvFree(u)
    /\ conv[u].group = "WAITING_GROUP_NAME"
    /\ IF text = "cancel"
       THEN TeacherCancelIn(u, "receive_group_name", "group")
       ELSE /\ user_data' = [user_data EXCEPT ![u].group_name = TRUE]
            /\ conv' = [conv EXCEPT ![u].group = "WAITING_CHANNEL_ID"]
            /\ reply' = Msg(u, "receive_group_name", "enter_channel_id")
            /\ UNCHANGED <<dbvars, user_sessions, clock, storevars>>

\* INSERT INTO groups for the teacher of user_data['user_phone'], then
\* user_data.clear() and show_teacher_menu, which clears the session
receive_channel_id(u, text) ==
    /\ AdminConvFree(u)
    /\ conv[u].group = "WAITING_CHANNEL_ID"
    /\ IF text = "cancel"
       THEN TeacherCancelIn(u, "receive_channel_id", "group")
       ELSE LET teacher == _get_teacher_by_phone(user_data[u].user_phone)
                group_id == NextId(groups)
            IN  /\ IF teacher = NoRow
                   THEN /\ reply' = Msg(u, "receive_channel_id", "teacher_not_found")
                        /\ UNCHANGED <<groups, user_data, user_sessions>>
                   ELSE IF ~user_data[u].group_name
                   THEN \* name is NOT NULL: the INSERT raises
                        /\ reply' = Msg(u, "receive_channel_id", "something_wrong")
                        /\ UNCHANGED <<groups, user_data, user_sessions>>
                   ELSE /\ group_id <= MaxGroups
                        /\ groups' = Append(groups,
                               [id |-> group_id, channel_id |-> "c",
                                teacher_id |-> teacher.id])
                        /\ user_data' = [user_data EXCEPT ![u] = EmptyUserData]
                        /\ user_sessions' = clear_user_session(u)
                        /\ reply' = [Msg(u, "receive_channel_id", "group_created")
                                     EXCEPT !.num = group_id]
                /\ conv' = [conv EXCEPT ![u].group = "END"]
                /\ UNCHANGED <<admins, teachers, students, modules, tasks,
                               submissions, grades, clock, storevars>>

\* entry point of teacher_student_conversation
start_add_student(u) ==
    /\ BeforeTaskConv(u)
    /\ IF SessionMissing(get_user_session(u))
       THEN /\ reply' = Msg(u, "start_add_student", "no_group_selected")
            /\ UNCHANGED conv
       ELSE /\ reply' = Msg(u, "start_add_student", "enter_student_name")
            /\ conv' = [conv EXCEPT ![u].student = "WAITING_STUDENT_NAME"]
    /\ UNCHANGED <<dbvars, user_sessions, user_data, clock, storevars>>

receive_student_name(u, text) ==
    /\ AdminConvFree(u)
    /\ conv[u].student = "WAITING_STUDENT_NAME"
    /\ IF text = "cancel"
       THEN TeacherCancelIn(u, "receive_student_name", "student")
       ELSE /\ user_data' = [user_data EXCEPT ![u].student_name = TRUE]
            /\ conv' = [conv EXCEPT ![u].student = "WAITING_STUDENT_PHONE"]
            /\ reply' = Msg(u, "receive_student_name", "enter_student_phone")
            /\ UNCHANGED <<dbvars, user_sessions, clock, storevars>>

\* phone numbers a teacher may type for a student: one already in group 1,
\* one registered nowhere; and the cancel button
StudentPhoneTexts == {CancelText, <<"9", "9", "8", "2">>, <<"9", "9", "8", "5">>}

\* SELECT id FROM students WHERE phone_number = ? AND group_id = ?; INSERT INTO
\* students.  session['selected_group_id'] raises without a session row, the
\* INSERT raises for a group that is gone; user_data.clear() otherwise.
receive_student_phone(u, student_phone) ==
    /\ AdminConvFree(u)
    /\ conv[u].student = "WAITING_STUDENT_PHONE"
    /\ IF student_phone = CancelText
       THEN TeacherCancelIn(u, "receive_student_phone", "student")
       ELSE LET session == get_user_session(u)
                group_id == session.selected_group_id
                formatted_phone == format_phone(student_phone)
                existing_student == SelectSeq(students,
                    LAMBDA r : r.phone_number = formatted_phone /\ r.group_id = group_id)
            IN  /\ IF session = NoSession
                      \/ (existing_student = <<>> /\ _get_group_by_id(group_id) = NoRow)
                   THEN /\ reply' = Msg(u, "receive_student_phone", "something_wrong")
                        /\ UNCHANGED <<students, user_data>>
                   ELSE IF existing_student # <<>>
                   THEN /\ reply' = [Msg(u, "receive_student_phone", "student_exists")
                                     EXCEPT !.phone = formatted_phone]
                        /\ user_data' = [user_data EXCEPT ![u] = EmptyUserData]
                        /\ UNCHANGED students
                   ELSE /\ Len(students) < MaxStudents
                        /\ students' = Append(students,
                               [id |-> NextId(students), phone_number |-> formatted_phone,
                                fullname |-> "Yangi",
                                group_id |-> group_id])
                        /\ user_data' = [user_data EXCEPT ![u] = EmptyUserData]
                        /\ reply' = [Msg(u, "receive_student_phone", "student_added")
                                     EXCEPT !.phone = formatted_phone]
                /\ conv' = [conv EXCEPT ![u].student = "END"]
                /\ UNCHANGED <<admins, teachers, groups, modules, tasks, submissions,
                               grades, user_sessions, clock, storevars>>

receive_task_description(u, text) ==
    /\ BeforeTaskConv(u)
    /\ conv[u].task = "WAITING_TASK_DESCRIPTION"
    /\ IF text = "cancel"
       THEN TeacherCancel(u, "receive_task_description")
       ELSE /\ user_data' = [user_data EXCEPT ![u].task_description = TRUE]
            /\ conv' = [conv EXCEPT ![u].task = "WAITING_TASK_PHOTOS"]
            /\ reply' = Msg(u, "receive_task_description", "send_task_photos")
            /\ UNCHANGED <<dbvars, user_sessions, clock, storevars>>

receive_task_photos(u, message) ==
    /\ conv[u].task = "WAITING_TASK_PHOTOS"
    /\ message = "photo" \/ BeforeTaskConv(u)
    /\ LET session == get_user_session(u)
           group_id == session.selected_group_id
           current_module == _get_current_module(group_id)
           deactivated == DeactivateTasks(group_id)
       IN  IF session = NoSession
           THEN \* session['selected_group_id'] raises; the except branch answers
                /\ reply' = Msg(u, "receive_task_photos", "something_wrong")
                /\ conv' = [conv EXCEPT ![u].task = "END"]
                /\ UNCHANGED <<dbvars, user_sessions, user_data, clock, storevars>>
           ELSE IF message = "cancel"
           THEN TeacherCancel(u, "receive_task_photos")
           ELSE IF message = "text"
           THEN /\ reply' = Msg(u, "receive_task_photos", "only_photo_or_done")
                /\ UNCHANGED <<dbvars, user_sessions, user_data, conv, clock, storevars>>
           ELSE IF message = "photo"
           THEN /\ reply' = Msg(u, "receive_task_photos", "photo_received")
                /\ UNCHANGED <<dbvars, user_sessions, user_data, conv, clock, storevars>>
           ELSE IF current_module = NoRow \/ ~user_data[u].task_description
           THEN \* the UPDATE is committed; then current_module['id'] raises, or
                \* the INSERT does for a description that is None (NOT NULL)
                /\ tasks' = deactivated
                /\ reply' = Msg(u, "receive_task_photos", "something_wrong")
                /\ conv' = [conv EXCEPT ![u].task = "END"]
                /\ UNCHANGED <<admins, teachers, groups, students, modules,
                               submissions, grades, user_sessions, user_data, clock, storevars>>
           ELSE /\ Len(tasks) < MaxTasks
                /\ tasks' = Append(deactivated,
                       [id |-> NextId(tasks), module_id |-> current_module.id,
                        is_active |-> TRUE, created_at |-> clock + 1])
                /\ clock' = clock + 1
                /\ UNCHANGED storevars
                /\ reply' = [Msg(u, "receive_task_photos", "task_created")
                             EXCEPT !.num = NextId(tasks)]
                /\ user_data' = [user_data EXCEPT ![u] = EmptyUserData]
                /\ conv' = [conv EXCEPT ![u].task = "END"]
                /\ UNCHANGED <<admins, teachers, groups, students, modules,
                               submissions, grades, user_sessions>>

\* What calling the async method _get_ungraded_submissions without await
\* yields: a coroutine object, which is truthy and cannot be indexed.
_get_ungraded_submissions(group_id) == [kind |-> "coroutine", rows |-> <<>>]

ListOf(rows) == [kind |-> "list", rows |-> rows]

\* Python truth value of a list or of a coroutine object
Truthy(v) == v.kind = "coroutine" \/ v.rows # <<>>

\* _show_next_submission: the user's session and user_data afterwards, what
\* is answered, and whether submissions_queue[0] raised TypeError
_show_next_submission(u, submissions_queue, sessions, data) ==
    IF ~Truthy(submissions_queue)
    THEN [raised |-> FALSE, msg |-> "all_graded", sub |-> 0,
          sessions |-> [sessions EXCEPT ![u] = NoSession], data |-> data]
    ELSE IF submissions_queue.kind = "coroutine"
    THEN [raised |-> TRUE, msg |-> "something_wrong", sub |-> 0,
          sessions |-> sessions, data |-> data]
    ELSE [raised |-> FALSE, msg |-> "grade_this", sub |-> Head(submissions_queue.rows),
          sessions |-> sessions,
          data |-> [data EXCEPT
                       ![u].current_submission = Head(submissions_queue.rows),
                       ![u].remaining_submissions = Tail(submissions_queue.rows)]]

start_grading(u) ==
    /\ Idle(u)
    /\ LET session == get_user_session(u)
           ungraded_submissions == _get_ungraded_submissions(session.selected_group_id)
           grading == set_user_session(u, session.selected_group_id, "grading")
           shown == _show_next_submission(u, ungraded_submissions, grading, user_data)
       IN  IF SessionMissing(session)
           THEN /\ reply' = Msg(u, "start_grading", "no_group_selected")
                /\ UNCHANGED <<user_sessions, user_data>>
           ELSE IF ~Truthy(ungraded_submissions)
           THEN /\ reply' = Msg(u, "start_grading", "nothing_to_grade")
                /\ UNCHANGED <<user_sessions, user_data>>
           ELSE /\ user_sessions' = shown.sessions
                /\ user_data' = shown.data
                /\ reply' = [Msg(u, "start_grading", shown.msg) EXCEPT !.sub = shown.sub]
    /\ UNCHANGED <<dbvars, conv, clock, storevars>>

SubmissionById(submission_id) ==
    LET rows == SelectSeq(submissions, LAMBDA r : r.id = submission_id)
    IN  IF rows = <<>> THEN NoRow ELSE rows[1]

TaskById(task_id) ==
    LET rows == SelectSeq(tasks, LAMBDA r : r.id = task_id)
    IN  IF rows = <<>> THEN NoRow ELSE rows[1]

\* faulty variant: the upper limit is off by one
GradeRejectedOffByOne(grade) == grade < GRADE_LOW \/ grade > GRADE_HIGH + 1

\* the range test of receive_grade on the parsed integer
GradeRejected(grade) == grade < GRADE_LOW \/ grade > GRADE_HIGH

\* receive_grade for numeric input (the only text handle_grade_input passes on)
receive_grade(u, grade) ==
    LET current_submission == SubmissionById(user_data[u].current_submission)
        task == TaskById(current_submission.task_id)
        remaining == ListOf(user_data[u].remaining_submissions)
        shown == _show_next_submission(u, remaining, user_sessions, user_data)
    IN  IF GradeRejected(grade)
        THEN /\ reply' = [Msg(u, "receive_grade", "grade_out_of_range") EXCEPT !.num = grade]
             /\ UNCHANGED <<dbvars, user_sessions, user_data, clock>>
        ELSE IF user_data[u].current_submission = 0
        THEN /\ reply' = [Msg(u, "receive_grade", "no_current_submission") EXCEPT !.num = grade]
             /\ UNCHANGED <<dbvars, user_sessions, user_data, clock>>
        ELSE IF current_submission = NoRow \/ task = NoRow
                \/ ~GradeUniqueOk(current_submission.id)
        THEN \* the module lookup or the INSERT raises
             /\ reply' = [Msg(u, "receive_grade", "something_wrong") EXCEPT !.num = grade]
             /\ UNCHANGED <<dbvars, user_sessions, user_data, clock>>
        ELSE /\ grades' = Append(grades,
                    [id |-> NextId(grades), submission_id |-> current_submission.id,
                     module_id |-> task.module_id,
                     student_id |-> current_submission.student_id, score |-> grade,
                     graded_at |-> clock + 1])
             /\ clock' = clock + 1
             /\ submissions' = [i \in DOMAIN submissions |->
                    IF submissions[i].id = current_submission.id
                    THEN [submissions[i] EXCEPT !.is_graded = TRUE]
                    ELSE submissions[i]]
             /\ user_sessions' = shown.sessions
             /\ user_data' = shown.data
             /\ reply' = [Msg(u, "receive_grade", "grade_saved")
                          EXCEPT !.num = grade, !.sub = current_submission.id]
             /\ UNCHANGED <<admins, teachers, groups, students, modules, tasks>>

\* faulty variant: any session of a teacher routes a number to grading
InAnySession(user_type, session) ==
    user_type = "teacher" /\ session # NoSession

\* user_type == 'teacher' and session and session.get('session_type') == 'grading'
InGradingSession(user_type, session) ==
    /\ user_type = "teacher"
    /\ session # NoSession
    /\ session.session_type = "grading"

\* main.py handle_grade_input: digits-only text outside every conversation
handle_grade_input(u, grade) ==
    /\ Idle(u)
    /\ LET session == get_user_session(u)
       IN  IF InGradingSession(user_data[u].user_type, session)
           THEN receive_grade(u, grade)
           ELSE \* handle_text_message: a number is no role button and no command
                /\ reply' = [Msg(u, "handle_text_message",
                                 IF user_data[u].available_roles # <<>>
                                 THEN "wrong_choice" ELSE "unknown_command")
                             EXCEPT !.num = grade]
                /\ UNCHANGED <<dbvars, user_sessions, user_data, clock>>
    /\ UNCHANGED <<conv, storevars>>

\* the grade-later button of the grading keyboard, and a text on no keyboard
UnknownTexts == {"grade_later", "other"}

\* handle_text_message for a text that is no digits-only text, no menu, back
\* or switch button and no group button: the priorities 2 to 4 do not match
\* and _handle_unknown_message answers; a pending role selection comes first
_handle_unknown_message(u, text) ==
    /\ Idle(u)
    /\ reply' = [Msg(u, "_handle_unknown_message",
                     IF user_data[u].available_roles # <<>> THEN "wrong_choice"
                     ELSE IF user_data[u].user_type = NoRole THEN "start_first"
                     ELSE "unknown_command")
                 EXCEPT !.text = text]
    /\ UNCHANGED <<dbvars, user_sessions, user_data, conv, clock, storevars>>

\* --------------------------------------------- handlers/student_handlers.py
start_submit_task(u) ==
    /\ Idle(u)
    /\ LET student_phone == user_data[u].user_phone
           student_group == get_student_group(student_phone)
           active_task == _get_active_task(student_group.id)
           student == _get_student_by_phone(student_phone)
       IN  IF student_group = NoRow
           THEN \* student_group['id'] raises
                /\ reply' = Msg(u, "start_submit_task", "something_wrong")
                /\ UNCHANGED <<user_data, conv>>
           ELSE IF active_task = NoRow
           THEN /\ reply' = Msg(u, "start_submit_task", "no_active_task")
                /\ UNCHANGED <<user_data, conv>>
           ELSE IF _get_student_submission(active_task.id, student.id) # NoRow
           THEN /\ reply' = [Msg(u, "start_submit_task", "already_submitted")
                             EXCEPT !.sub = _get_student_submission(active_task.id, student.id).id]
                /\ UNCHANGED <<user_data, conv>>
           ELSE /\ user_data' = [user_data EXCEPT ![u].submitting_task = active_task.id]
                /\ conv' = [conv EXCEPT ![u].submission = "WAITING_SUBMISSION_DESCRIPTION"]
                /\ reply' = Msg(u, "start_submit_task", "submission_description")
    /\ UNCHANGED <<dbvars, user_sessions, clock, storevars>>

\* cancel_operation of the student handlers: pops the three submission keys
StudentCancel(u, h) ==
    /\ user_data' = [user_data EXCEPT ![u].submitting_task = 0,
                                      ![u].submission_description = FALSE,
                                      ![u].submission_photos = 0]
    /\ conv' = [conv EXCEPT ![u].submission = "END"]
    /\ reply' = Msg(u, h, "cancelled")
    /\ UNCHANGED <<dbvars, user_sessions, clock, storevars>>

receive_submission_description(u, text) ==
    /\ TaskConvFree(u)
    /\ conv[u].submission = "WAITING_SUBMISSION_DESCRIPTION"
    /\ IF text = "cancel"
       THEN StudentCancel(u, "receive_submission_description")
       ELSE /\ user_data' = [user_data EXCEPT ![u].submission_description = TRUE,
                                              ![u].submission_photos = 0]
            /\ conv' = [conv EXCEPT ![u].submission = "WAITING_SUBMISSION_PHOTOS"]
            /\ reply' = Msg(u, "receive_submission_description", "send_submission_photos")
            /\ UNCHANGED <<dbvars, user_sessions, clock, storevars>>

\* _finalize_submission: INSERT INTO submissions, then the queue position
_finalize_submission(u) ==
    LET student_phone == user_data[u].user_phone
        student == _get_student_by_phone(student_phone)
        task == user_data[u].submitting_task
        submission_id == NextId(submissions)
        inserted == Append(submissions,
                        [id |-> submission_id, task_id |-> task,
                         student_id |-> student.id,
                         submitted_at |-> clock + 1, is_graded |-> FALSE,
                         photos |-> user_data[u].submission_photos])
    IN  IF student = NoRow \/ task = 0 \/ TaskById(task) = NoRow
           \/ ~SubmissionUniqueOk(task, student.id)
        THEN \* a None is indexed, or the INSERT violates a constraint
             /\ reply' = Msg(u, "_finalize_submission", "something_wrong")
             /\ UNCHANGED <<submissions, clock, storevars, user_data>>
        ELSE /\ Len(submissions) < MaxSubmissions
             /\ submissions' = inserted
             /\ clock' = clock + 1
             /\ UNCHANGED storevars
             /\ reply' = [Msg(u, "_finalize_submission", "submitted")
                          EXCEPT !.sub = submission_id,
                                 !.pos = _get_queue_position(inserted, student.id,
                                             get_student_group(student_phone).id)]
             /\ user_data' = [user_data EXCEPT ![u].submitting_task = 0,
                                               ![u].submission_description = FALSE,
                                               ![u].submission_photos = 0]

\* the handler puts no limit on the photos it appends; most is the number of
\* photos after which the student sends no more
receive_submission_photos(u, message, most) ==
    /\ conv[u].submission = "WAITING_SUBMISSION_PHOTOS"
    /\ IF message = "photo" THEN conv[u].task # "WAITING_TASK_PHOTOS" ELSE TaskConvFree(u)
    /\ IF message = "cancel"
       THEN StudentCancel(u, "receive_submission_photos")
       ELSE IF message = "done"
       THEN /\ _finalize_submission(u)
            /\ conv' = [conv EXCEPT ![u].submission = "END"]
            /\ UNCHANGED <<admins, teachers, groups, students, modules, tasks,
                           grades, user_sessions>>
       ELSE IF message = "text"
       THEN /\ reply' = Msg(u, "receive_submission_photos", "only_photo_or_done")
            /\ UNCHANGED <<dbvars, user_sessions, user_data, conv, clock, storevars>>
       ELSE /\ user_data[u].submission_photos < most
            /\ user_data' = [user_data EXCEPT ![u].submission_photos = @ + 1]
            /\ reply' = Msg(u, "receive_submission_photos",
                            IF user_data[u].submission_photos + 1 >= MAX_PHOTOS_PER_SUBMISSION
                            THEN "max_photos" ELSE "photo_received")
            /\ UNCHANGED <<dbvars, user_sessions, conv, clock, storevars>>

show_current_task(u) ==
    /\ Idle(u)
    /\ LET student_phone == user_data[u].user_phone
           student_group == get_student_group(student_phone)
           active_task == _get_active_task(student_group.id)
           student == _get_student_by_phone(student_phone)
           existing_submission == _get_student_submission(active_task.id, student.id)
       IN  reply' =
             IF student_group = NoRow
             THEN Msg(u, "show_current_task", "group_not_found")
             ELSE IF active_task = NoRow
             THEN Msg(u, "show_current_task", "no_active_task")
             ELSE IF existing_submission = NoRow
             THEN Msg(u, "show_current_task", "task_details")
             ELSE IF existing_submission.is_graded
             THEN [Msg(u, "show_current_task", "graded") EXCEPT !.sub = existing_submission.id]
             ELSE [Msg(u, "show_current_task", "in_queue")
                   EXCEPT !.sub = existing_submission.id,
                          !.pos = _get_queue_position(submissions, student.id,
                                                      student_group.id)]
    /\ UNCHANGED <<dbvars, user_sessions, user_data, conv, clock, storevars>>

\* ORDER BY g.score DESC, g.graded_at ASC
RECURSIVE OrderByScore(_)
OrderByScore(rows) ==
    IF rows = {} THEN <<>>
    ELSE LET first == CHOOSE r \in rows : \A q \in rows :
                          \/ r.score > q.score
                          \/ r.score = q.score /\ r.graded_at <= q.graded_at
         IN  <<first>> \o OrderByScore(rows \ {first})

\* SELECT s.fullname, g.score, g.graded_at FROM grades g JOIN students s JOIN
\* modules m WHERE m.group_id = ? AND m.module_number = ? ORDER BY ...: one row
\* for every grade.  student_id is not a column of the result: it is kept
\* beside every row to tell whose grade the row came from.
LeaderboardRows(group_id, module_number) ==
    LET joined == {g \in Range(grades) :
                     /\ \E st \in Range(students) : st.id = g.student_id
                     /\ \E m \in Range(modules) :
                            /\ m.id = g.module_id
                            /\ m.group_id = group_id
                            /\ m.module_number = module_number}
        ordered == OrderByScore(joined)
    IN  [i \in DOMAIN ordered |->
            [fullname |-> (CHOOSE st \in Range(students) :
                              st.id = ordered[i].student_id).fullname,
             score |-> ordered[i].score, graded_at |-> ordered[i].graded_at,
             student_id |-> ordered[i].student_id]]

show_leaderboard(u) ==
    /\ Idle(u)
    /\ LET student_phone == user_data[u].user_phone
           student == _get_student_by_phone(student_phone)
           student_group == get_student_group(student_phone)
           current_module_num ==
               Max({m.module_number : m \in Range(ModulesOfGroup(student_group.id))})
           leaderboard == LeaderboardRows(student_group.id, current_module_num)
           mine == {i \in DOMAIN leaderboard :
                       leaderboard[i].fullname = student.fullname}
           current_student_position ==
               IF mine = {} THEN 0 ELSE CHOOSE i \in mine : \A j \in mine : i <= j
       IN  reply' =
             IF student_group = NoRow
             THEN Msg(u, "show_leaderboard", "something_wrong")
             ELSE IF ModulesOfGroup(student_group.id) = <<>>
             THEN Msg(u, "show_leaderboard", "no_module")
             ELSE IF leaderboard = <<>>
             THEN [Msg(u, "show_leaderboard", "nobody_graded")
                   EXCEPT !.num = current_module_num]
             ELSE [Msg(u, "show_leaderboard", "leaderboard")
                   EXCEPT !.num = current_module_num,
                          !.pos = current_student_position,
                          !.board = SubSeq(leaderboard, 1,
                                       IF Len(leaderboard) < LEADERBOARD_TOP
                                       THEN Len(leaderboard) ELSE LEADERBOARD_TOP)]
    /\ UNCHANGED <<dbvars, user_sessions, user_data, conv, clock, storevars>>

\* ------------------------------------------------------------ specification
Messages == {"cancel", "done", "text", "photo"}

\* get_chat_member answers drawn while the teacher's work is explored
LifecycleOracle == {"member", "error"}

Authentication(u, texts, contacts, answers) ==
    \/ start_command(u)
    \/ \E text \in texts, oracleT, oracleS \in answers :
           receive_phone_text(u, text, oracleT, oracleS)
    \/ \E contact \in contacts, oracleT, oracleS \in answers :
           receive_phone_contact(u, contact, oracleT, oracleS)

\* The teacher's side of the bot, from an empty store: authentication, group
\* selection, modules, tasks, the grading session.
Next ==
    \E u \in TeacherUsers :
        \/ Authentication(u, TeacherTexts, TeacherContacts, LifecycleOracle)
        \/ show_main_menu(u)
        \/ show_my_groups(u)
        \/ \E group_id \in {g.id : g \in Range(groups)} : select_group(u, group_id)
        \/ create_new_module(u)
        \/ start_create_task(u)
        \/ \E text \in {"cancel", "text"} : receive_task_description(u, text)
        \/ \E message \in Messages : receive_task_photos(u, message)
        \/ start_grading(u)
        \/ \E grade \in GradeInputs : handle_grade_input(u, grade)

Spec == Init /\ [][Next]_vars

\* context.user_data once _authenticate_user activated a single role
Authenticated(phone_number, role) ==
    [EmptyUserData EXCEPT !.user_phone = phone_number, !.user_type = role]

\* The submission queue of group 1.  The teacher created module 1 and task 1
\* for group 1, authenticated again and selected group 1; s1 authenticated
\* with the first student's phone and s2 with either student's phone (two
\* Telegram accounts may type the same phone number).
InitQueue ==
    /\ Roster
    /\ modules = <<[id |-> 1, group_id |-> 1, module_number |-> 1]>>
    /\ tasks = <<[id |-> 1, module_id |-> 1, is_active |-> TRUE, created_at |-> 1]>>
    /\ submissions = <<>>
    /\ grades = <<>>
    /\ user_sessions = [u \in Users |->
           IF u \in TeacherUsers
           THEN [selected_group_id |-> 1, session_type |-> "normal"]
           ELSE NoSession]
    /\ \E phone_number \in {PhoneA, PhoneB} :
           user_data = [u \in Users |->
               IF u \in TeacherUsers
               THEN [Authenticated(PhoneT, "teacher") EXCEPT !.teacher_groups = {1, 2}]
               ELSE IF u = "s1" THEN Authenticated(PhoneA, "student")
               ELSE Authenticated(phone_number, "student")]
    /\ conv = [u \in Users |-> EmptyConv]
    /\ reply = Msg("t", "none", "none")
    /\ clock = 1
    /\ StoreIdle

NextQueue ==
    \/ \E u \in TeacherUsers :
        \/ start_create_task(u)
        \/ \E text \in {"cancel", "text"} : receive_task_description(u, text)
        \/ \E message \in Messages : receive_task_photos(u, message)
        \/ start_grading(u)
        \/ \E grade \in GradeInputs : handle_grade_input(u, grade)
    \/ \E u \in StudentUsers :
        \/ start_submit_task(u)
        \/ \E text \in {"cancel", "text"} : receive_submission_description(u, text)
        \/ \E message \in Messages : receive_submission_photos(u, message, MaxUploads)
        \/ show_current_task(u)

SpecQueue == InitQueue /\ [][NextQueue]_vars

\* The students of the queue sending photo after photo: up to MaxUploads
\* photos past the configured maximum.
NextUploads ==
    \E u \in StudentUsers :
        \/ start_submit_task(u)
        \/ \E text \in {"cancel", "text"} : receive_submission_description(u, text)
        \/ \E message \in Messages :
               receive_submission_photos(u, message, MAX_PHOTOS_PER_SUBMISSION + MaxUploads)
        \/ show_current_task(u)

SpecUploads == InitQueue /\ [][NextUploads]_vars

\* ----------------------------------------------------- the queue position
\* Group 1 has a superseded task 1 and an active task 2, group 2 an active
\* task 3.  The submissions table is any table of at most MaxSubmissions rows
\* of students of the task's group, no pair twice, in order of submission,
\* each row graded or not; every graded row has its grade.
PositionPairs ==
    {[task_id |-> 1, student_id |-> 1], [task_id |-> 2, student_id |-> 1],
     [task_id |-> 1, student_id |-> 2], [task_id |-> 2, student_id |-> 2],
     [task_id |-> 3, student_id |-> 3]}

PositionTables ==
    UNION {{f \in [1..n -> PositionPairs \X BOOLEAN] :
               \A i, j \in 1..n : i # j => f[i][1] # f[j][1]} : n \in 0..MaxSubmissions}

GradesOf(table) ==
    LET graded == SelectSeq(table, LAMBDA r : r.is_graded)
    IN  [i \in DOMAIN graded |->
            [id |-> i, submission_id |-> graded[i].id,
             module_id |-> IF graded[i].task_id = 3 THEN 2 ELSE 1,
             student_id |-> graded[i].student_id, score |-> GRADE_HIGH,
             graded_at |-> 3 + Len(table) + i]]

InitPosition ==
    /\ Roster
    /\ modules = <<[id |-> 1, group_id |-> 1, module_number |-> 1],
                   [id |-> 2, group_id |-> 2, module_number |-> 1]>>
    /\ tasks = <<[id |-> 1, module_id |-> 1, is_active |-> FALSE, created_at |-> 1],
                 [id |-> 2, module_id |-> 1, is_active |-> TRUE, created_at |-> 2],
                 [id |-> 3, module_id |-> 2, is_active |-> TRUE, created_at |-> 3]>>
    /\ \E f \in PositionTables :
           /\ submissions = [i \in DOMAIN f |->
                  [id |-> i, task_id |-> f[i][1].task_id,
                   student_id |-> f[i][1].student_id,
                   submitted_at |-> 3 + i, is_graded |-> f[i][2], photos |-> 1]]
           /\ clock = 3 + Len(f) + Len(SelectSeq(f, LAMBDA x : x[2]))
           /\ StoreIdle
    /\ grades = GradesOf(submissions)
    /\ user_sessions = [u \in Users |-> NoSession]
    /\ \E first \in {PhoneA, PhoneB}, second \in {PhoneB, PhoneC} :
           user_data = [u \in Users |->
               IF u = "s1" THEN Authenticated(first, "student")
               ELSE IF u = "s2" THEN Authenticated(second, "student")
               ELSE EmptyUserData]
    /\ conv = [u \in Users |-> EmptyConv]
    /\ reply = Msg("t", "none", "none")

NextPosition == \E u \in StudentUsers : show_current_task(u)

SpecPosition == InitPosition /\ [][NextPosition]_vars

\* -------------------------------------------------------- role resolution
\* The teachers and students tables role resolution may meet: the admin's
\* phone may also be a teacher's and a student's, the teacher's phone may also
\* be a student's, and one phone may be enrolled in both groups.
TeacherRosters ==
    {<<[id |-> 1, phone_number |-> PhoneT]>>,
     <<[id |-> 1, phone_number |-> PhoneT], [id |-> 2, phone_number |-> ADMIN_PHONE]>>}

StudentRosters ==
    {<<>>,
     <<[id |-> 1, phone_number |-> PhoneA, fullname |-> "Ali", group_id |-> 1],
       [id |-> 2, phone_number |-> PhoneA, fullname |-> "Ali", group_id |-> 2]>>,
     <<[id |-> 1, phone_number |-> PhoneA, fullname |-> "Ali", group_id |-> 1],
       [id |-> 2, phone_number |-> PhoneT, fullname |-> "Temur", group_id |-> 1],
       [id |-> 3, phone_number |-> ADMIN_PHONE, fullname |-> "Aziz", group_id |-> 2]>>}

InitAuth ==
    /\ admins = {}
    /\ teachers \in TeacherRosters
    /\ groups = <<[id |-> 1, channel_id |-> "c1", teacher_id |-> 1],
                  [id |-> 2, channel_id |-> "c2", teacher_id |-> 1]>>
    /\ students \in StudentRosters
    /\ modules = <<>>
    /\ tasks = <<>>
    /\ submissions = <<>>
    /\ grades = <<>>
    /\ user_sessions = [u \in Users |-> NoSession]
    /\ user_data = [u \in Users |-> EmptyUserData]
    /\ conv = [u \in Users |-> EmptyConv]
    /\ reply = Msg("t", "none", "none")
    /\ clock = 0
    /\ StoreIdle

NextAuth ==
    \E u \in TeacherUsers : Authentication(u, AuthTexts, AuthContacts, OracleAnswers)

SpecAuth == InitAuth /\ [][NextAuth]_vars

\* Role resolution with the channels' membership made explicit: every group
\* row carries what get_chat_member answers for the principal in its channel.
ChannelAnswers == {"member", "left", "error"}

\* the answer for the one channel get_user_type asks about: the channel of
\* the group of the first student row of the phone
ChannelAnswer(phone_number) ==
    LET group_data == get_student_group(format_phone(phone_number))
    IN  IF group_data = NoRow THEN "left" ELSE group_data.member_status

InitChannels ==
    /\ admins = {}
    /\ teachers = <<[id |-> 1, phone_number |-> PhoneT]>>
    /\ \E answer1, answer2 \in ChannelAnswers :
           groups = <<[id |-> 1, channel_id |-> "c1", teacher_id |-> 1,
                       member_status |-> answer1],
                      [id |-> 2, channel_id |-> "c2", teacher_id |-> 1,
                       member_status |-> answer2]>>
    /\ students \in StudentRosters
    /\ modules = <<>>
    /\ tasks = <<>>
    /\ submissions = <<>>
    /\ grades = <<>>
    /\ user_sessions = [u \in Users |-> NoSession]
    /\ user_data = [u \in Users |-> EmptyUserData]
    /\ conv = [u \in Users |-> EmptyConv]
    /\ reply = Msg("t", "none", "none")
    /\ clock = 0
    /\ StoreIdle

NextChannels ==
    \E u \in TeacherUsers :
        \/ start_command(u)
        \/ \E text \in AuthTexts, oracleT \in LifecycleOracle :
               receive_phone_text(u, text, oracleT, ChannelAnswer(text))
        \/ \E contact \in AuthContacts, oracleT \in LifecycleOracle :
               receive_phone_contact(u, contact, oracleT,
                   ChannelAnswer(IF StartsWith(contact, <<"+">>) THEN contact
                                 ELSE <<"+">> \o contact))

SpecChannels == InitChannels /\ [][NextChannels]_vars

\* Role resolution while the store fails: get_user_type is applied to a phone
\* number, the two oracle answers and the set of lookups that raise.
GetUserType(u, phone_number, oracleT, oracleS, errors) ==
    /\ reply' = [Msg(u, "get_user_type", "resolved")
                 EXCEPT !.phone = format_phone(phone_number), !.oracleT = oracleT,
                        !.oracleS = oracleS, !.errors = errors,
                        !.result = get_user_type_with(phone_number, oracleT,
                                                      oracleS, errors)]
    /\ admins' = _ensure_admin_exists(phone_number, oracleT, oracleS)
    /\ UNCHANGED <<teachers, groups, students, modules, tasks, submissions, grades,
                   user_sessions, user_data, conv, clock, storevars>>

NextFaults ==
    \E u \in TeacherUsers, text \in AuthTexts, oracleT, oracleS \in LifecycleOracle,
       errors \in SUBSET Lookups :
        GetUserType(u, text, oracleT, oracleS, errors)

SpecFaults == InitAuth /\ [][NextFaults]_vars

\* Roles: one principal, free to press any button of any keyboard, who may
\* share the admin phone, a phone that is a teacher's and a student's at once,
\* or a phone registered nowhere.
RoleUsers == {"t"}
\* the admin phone, the teacher-and-student phone, a phone registered nowhere
RoleTexts == {<<"0">>, <<"+", "9", "9", "8", " ", "1">>, <<"9">>}
DeleteTexts == {CancelText, PhoneT, PhoneC}

InitRoles ==
    /\ admins = {}
    /\ teachers = <<[id |-> 1, phone_number |-> PhoneT],
                    [id |-> 2, phone_number |-> PhoneB]>>
    /\ groups = <<[id |-> 1, channel_id |-> "c1", teacher_id |-> 1],
                  [id |-> 2, channel_id |-> "c2", teacher_id |-> 2]>>
    /\ students = <<[id |-> 1, phone_number |-> PhoneT, fullname |-> "Temur", group_id |-> 2],
                    [id |-> 2, phone_number |-> PhoneA, fullname |-> "Ali", group_id |-> 1]>>
    /\ modules = <<>>
    /\ tasks = <<>>
    /\ submissions = <<>>
    /\ grades = <<>>
    /\ user_sessions = [u \in Users |-> NoSession]
    /\ user_data = [u \in Users |-> EmptyUserData]
    /\ conv = [u \in Users |-> EmptyConv]
    /\ reply = Msg("t", "none", "none")
    /\ clock = 0
    /\ StoreIdle

NextRoles ==
    \E u \in RoleUsers :
        \/ start_command(u)
        \/ \E text \in RoleTexts, oracleT, oracleS \in LifecycleOracle :
               receive_phone_text(u, text, oracleT, oracleS)
        \/ \E selected_role \in RoleButtons : _handle_role_selection(u, selected_role)
        \/ \E oracleT, oracleS \in LifecycleOracle : _handle_role_switch(u, oracleT, oracleS)
        \/ show_main_menu(u)
        \/ show_my_groups(u)
        \/ \E group_id \in {1, 2} : select_group(u, group_id)
        \/ create_new_module(u)
        \/ start_create_teacher(u)
        \/ \E message \in {"cancel", "text"} : receive_teacher_name(u, message)
        \/ \E teacher_phone \in TeacherPhoneTexts : receive_teacher_phone(u, teacher_phone)
        \/ view_all_teachers(u)
        \/ start_delete_teacher(u)
        \/ \E selected_text \in DeleteTexts : confirm_delete_teacher(u, selected_text)

SpecRoles == InitRoles /\ [][NextRoles]_vars

\* The group-scoped commands of an authenticated teacher, with and without a
\* selected group.
InitScoped ==
    /\ Roster
    /\ modules = <<>>
    /\ tasks = <<>>
    /\ submissions = <<>>
    /\ grades = <<>>
    /\ user_sessions = [u \in Users |-> NoSession]
    /\ user_data = [u \in Users |->
           IF u = "t"
           THEN [Authenticated(PhoneT, "teacher") EXCEPT !.teacher_groups = {1, 2}]
           ELSE EmptyUserData]
    /\ conv = [u \in Users |-> EmptyConv]
    /\ reply = Msg("t", "none", "none")
    /\ clock = 0
    /\ StoreIdle

NextScoped ==
    \E u \in TeacherUsers :
        \/ show_main_menu(u)
        \/ show_my_groups(u)
        \/ \E group_id \in {1, 2} : select_group(u, group_id)
        \/ create_new_module(u)
        \/ start_create_task(u)
        \/ \E text \in {"cancel", "text"} : receive_task_description(u, text)
        \/ \E message \in Messages : receive_task_photos(u, message)
        \/ start_grading(u)
        \/ start_add_student(u)
        \/ \E text \in {"cancel", "text"} : receive_student_name(u, text)
        \/ \E student_phone \in StudentPhoneTexts : receive_student_phone(u, student_phone)

SpecScoped == InitScoped /\ [][NextScoped]_vars

\* The ranking.  Group 1 has an earlier module and a current one.  The grades
\* table is any table of at most MaxGrades grades of the two students of
\* group 1, each in either module; every grade has its own task and
\* submission, graded one after the other.  The second student of the group
\* may bear the first student's full name.
RankScores == {7, 12, 19}
RankNames == {"Vali", "Ali"}

RankTables ==
    UNION {[1..n -> {1, 2} \X {1, 2} \X RankScores] : n \in 0..MaxGrades}

InitRanking ==
    /\ admins = {}
    /\ teachers = <<[id |-> 1, phone_number |-> PhoneT]>>
    /\ groups = <<[id |-> 1, channel_id |-> "c1", teacher_id |-> 1],
                  [id |-> 2, channel_id |-> "c2", teacher_id |-> 1]>>
    /\ \E fullname \in RankNames :
           students =
               <<[id |-> 1, phone_number |-> PhoneA, fullname |-> "Ali", group_id |-> 1],
                 [id |-> 2, phone_number |-> PhoneB, fullname |-> fullname, group_id |-> 1],
                 [id |-> 3, phone_number |-> PhoneC, fullname |-> "Sami", group_id |-> 2]>>
    /\ modules = <<[id |-> 1, group_id |-> 1, module_number |-> 1],
                   [id |-> 2, group_id |-> 1, module_number |-> 2]>>
    /\ \E f \in RankTables :
           /\ tasks = [i \in DOMAIN f |->
                  [id |-> i, module_id |-> f[i][2], is_active |-> i = Len(f),
                   created_at |-> i]]
           /\ submissions = [i \in DOMAIN f |->
                  [id |-> i, task_id |-> i, student_id |-> f[i][1],
                   submitted_at |-> Len(f) + i, is_graded |-> TRUE, photos |-> 1]]
           /\ grades = [i \in DOMAIN f |->
                  [id |-> i, submission_id |-> i, module_id |-> f[i][2],
                   student_id |-> f[i][1], score |-> f[i][3],
                   graded_at |-> 2 * Len(f) + i]]
           /\ clock = 3 * Len(f)
           /\ StoreIdle
    /\ user_sessions = [u \in Users |-> NoSession]
    /\ user_data = [u \in Users |->
           IF u = "s1" THEN Authenticated(PhoneA, "student")
           ELSE IF u = "s2" THEN Authenticated(PhoneB, "student")
           ELSE EmptyUserData]
    /\ conv = [u \in Users |-> EmptyConv]
    /\ reply = Msg("t", "none", "none")

NextRanking == \E u \in StudentUsers : show_leaderboard(u)

SpecRanking == InitRanking /\ [][NextRanking]_vars

\* The session store on its own: the groups exist, no session row yet.
InitSession ==
    /\ Roster
    /\ modules = <<>>
    /\ tasks = <<>>
    /\ submissions = <<>>
    /\ grades = <<>>
    /\ user_sessions = [u \in Users |-> NoSession]
    /\ user_data = [u \in Users |-> EmptyUserData]
    /\ conv = [u \in Users |-> EmptyConv]
    /\ reply = Msg("t", "none", "none")
    /\ clock = 0
    /\ StoreIdle

\* one caller: the calls follow one another as in a single handler
NextSessionSeq ==
    \/ \E user_id \in SessionUsers, group_id \in {1, 2}, session_type \in SessionTypes :
           SetSessionDelete("p", user_id, group_id, session_type)
    \/ SetSessionInsert("p")
    \/ \E user_id \in SessionUsers : GetSession("p", user_id)
    \/ \E user_id \in SessionUsers : ClearSession("p", user_id)

SpecSessionSeq == InitSession /\ [][NextSessionSeq]_vars

\* two callers whose statements interleave freely
NextSession ==
    \E p \in Callers :
        \/ \E user_id \in SessionUsers, group_id \in {1, 2} :
               SetSessionDelete(p, user_id, group_id, "normal")
        \/ SetSessionInsert(p)
        \/ \E user_id \in SessionUsers : GetSession(p, user_id)
        \/ \E user_id \in SessionUsers : ClearSession(p, user_id)

SpecSession == InitSession /\ [][NextSession]_vars

\* A task creation that is interrupted: the teacher has group 1 selected, whose
\* module 1 has the active task 1, and may press the buttons of the task
\* conversation and of the teacher-creation conversation, which is registered
\* before it and clears user_data when it is cancelled.
InitPartial ==
    /\ Roster
    /\ modules = <<[id |-> 1, group_id |-> 1, module_number |-> 1]>>
    /\ tasks = <<[id |-> 1, module_id |-> 1, is_active |-> TRUE, created_at |-> 1]>>
    /\ submissions = <<>>
    /\ grades = <<>>
    /\ user_sessions = [u \in Users |->
           IF u \in TeacherUsers
           THEN [selected_group_id |-> 1, session_type |-> "normal"]
           ELSE NoSession]
    /\ user_data = [u \in Users |->
           IF u \in TeacherUsers
           THEN [Authenticated(PhoneT, "teacher") EXCEPT !.teacher_groups = {1, 2}]
           ELSE EmptyUserData]
    /\ conv = [u \in Users |-> EmptyConv]
    /\ reply = Msg("t", "none", "none")
    /\ clock = 1
    /\ StoreIdle

NextPartial ==
    \E u \in TeacherUsers :
        \/ show_my_groups(u)
        \/ \E group_id \in {1, 2} : select_group(u, group_id)
        \/ create_new_module(u)
        \/ start_create_task(u)
        \/ \E text \in {"cancel", "text"} : receive_task_description(u, text)
        \/ \E message \in Messages : receive_task_photos(u, message)
        \/ start_create_teacher(u)
        \/ \E message \in {"cancel", "text"} : receive_teacher_name(u, message)
        \/ receive_teacher_phone(u, CancelText)

SpecPartial == InitPartial /\ [][NextPartial]_vars

\* Numbers sent by a principal in any role, with or without a session, while
\* the submissions of group 1 wait: the first may have been presented for
\* grading (current_submission) and the second queued behind it.
GradingRoles == {"teacher", "student", "admin", NoRole}
GradingSessions ==
    {NoSession, [selected_group_id |-> 1, session_type |-> "normal"],
     [selected_group_id |-> 1, session_type |-> "grading"]}

InitGradeInput ==
    /\ Roster
    /\ modules = <<[id |-> 1, group_id |-> 1, module_number |-> 1]>>
    /\ tasks = <<[id |-> 1, module_id |-> 1, is_active |-> TRUE, created_at |-> 1]>>
    /\ submissions =
           <<[id |-> 1, task_id |-> 1, student_id |-> 1, submitted_at |-> 2,
              is_graded |-> FALSE, photos |-> 1],
             [id |-> 2, task_id |-> 1, student_id |-> 2, submitted_at |-> 3,
              is_graded |-> FALSE, photos |-> 1]>>
    /\ grades = <<>>
    /\ \E session \in GradingSessions :
           user_sessions = [u \in Users |-> IF u \in TeacherUsers THEN session ELSE NoSession]
    /\ \E role \in GradingRoles, current_submission \in {0, 1} :
           user_data = [u \in Users |->
               IF u \in TeacherUsers
               THEN [Authenticated(PhoneT, role) EXCEPT
                        !.teacher_groups = {1, 2},
                        !.current_submission = current_submission,
                        !.remaining_submissions =
                            IF current_submission = 0 THEN <<>> ELSE <<2>>]
               ELSE EmptyUserData]
    /\ conv = [u \in Users |-> EmptyConv]
    /\ reply = Msg("t", "none", "none")
    /\ clock = 3
    /\ StoreIdle

NextGradeInput ==
    \E u \in TeacherUsers :
        \/ \E grade \in GradeInputs : handle_grade_input(u, grade)
        \/ show_main_menu(u)
        \/ \E group_id \in {1, 2} : select_group(u, group_id)
        \/ start_grading(u)

SpecGradeInput == InitGradeInput /\ [][NextGradeInput]_vars

\* The same principal with the buttons of the grading keyboard added.
NextPause ==
    \E u \in TeacherUsers :
        \/ \E grade \in GradeInputs : handle_grade_input(u, grade)
        \/ \E text \in UnknownTexts : _handle_unknown_message(u, text)
        \/ show_main_menu(u)
        \/ \E group_id \in {1, 2} : select_group(u, group_id)
        \/ start_grading(u)

SpecPause == InitGradeInput /\ [][NextPause]_vars

\* A teacher at work while an admin removes teachers: "t" is authenticated as
\* the teacher of group 1, "s1" as the admin.  The groups listed for "t" stay
\* in user_data['teacher_groups'] when the rows behind them are deleted.
InitStale ==
    /\ admins = {ADMIN_PHONE}
    /\ teachers = <<[id |-> 1, phone_number |-> PhoneT],
                    [id |-> 2, phone_number |-> PhoneB]>>
    /\ groups = <<[id |-> 1, channel_id |-> "c1", teacher_id |-> 1],
                  [id |-> 2, channel_id |-> "c2", teacher_id |-> 2]>>
    /\ students = <<[id |-> 1, phone_number |-> PhoneA, fullname |-> "Ali", group_id |-> 1]>>
    /\ modules = <<>>
    /\ tasks = <<>>
    /\ submissions = <<>>
    /\ grades = <<>>
    /\ user_sessions = [u \in Users |-> NoSession]
    /\ user_data = [u \in Users |->
           IF u = "t" THEN Authenticated(PhoneT, "teacher")
           ELSE IF u = "s1" THEN Authenticated(ADMIN_PHONE, "admin")
           ELSE EmptyUserData]
    /\ conv = [u \in Users |-> EmptyConv]
    /\ reply = Msg("t", "none", "none")
    /\ clock = 0
    /\ StoreIdle

NextStale ==
    \/ \E u \in {"t"} :
        \/ show_main_menu(u)
        \/ show_my_groups(u)
        \/ \E group_id \in {1, 2} : select_group(u, group_id)
        \/ create_new_module(u)
        \/ start_grading(u)
    \/ \E u \in {"s1"} :
        \/ start_delete_teacher(u)
        \/ \E selected_text \in DeleteTexts : confirm_delete_teacher(u, selected_text)
        \/ view_all_teachers(u)

SpecStale == InitStale /\ [][NextStale]_vars

\* format_phone on its own: every text of up to MaxPhoneLen characters, drawn
\* from a digit of the country prefix, another digit, the plus sign, a blank
\* and a letter, is handed to format_phone.
MaxPhoneLen == 3
PhoneChars == {"9", "8", "+", " ", "a"}

RECURSIVE PhoneInputsOf(_)
PhoneInputsOf(n) ==
    IF n = 0 THEN {<<>>}
    ELSE LET shorter == PhoneInputsOf(n - 1)
         IN  shorter \cup {Append(s, c) : s \in shorter, c \in PhoneChars}

PhoneInputs == PhoneInputsOf(MaxPhoneLen)

InitPhone ==
    /\ admins = {}
    /\ teachers = <<[id |-> 1, phone_number |-> PhoneT]>>
    /\ groups = <<[id |-> 1, channel_id |-> "c1", teacher_id |-> 1]>>
    /\ students = <<>>
    /\ modules = <<>>
    /\ tasks = <<>>
    /\ submissions = <<>>
    /\ grades = <<>>
    /\ user_sessions = [u \in Users |-> NoSession]
    /\ user_data = [u \in Users |-> EmptyUserData]
    /\ conv = [u \in Users |-> EmptyConv]
    /\ \E phone_number \in PhoneInputs :
           reply = [Msg("t", "input", "none") EXCEPT !.phone = phone_number]
    /\ clock = 0
    /\ StoreIdle

FormatPhone ==
    /\ reply.handler = "input"
    /\ reply' = [Msg("t", "format_phone", "formatted")
                 EXCEPT !.phone = format_phone(reply.phone)]
    /\ UNCHANGED <<dbvars, user_sessions, user_data, conv, clock, storevars>>

NextPhone == FormatPhone

SpecPhone == InitPhone /\ [][NextPhone]_vars

\* --------------------------------------------- bot/ (the command-based bot)
\* The handlers of bot/handlers keep the running flow in
\* user_data['conversation_state'] and its data in user_data['temp_data'].
\* Whether a command is accepted (the role check and the assignment lookups of
\* the services) is an input of the action.

\* student.submit_homework_start
submit_homework_start(u, accepted) ==
    /\ IF accepted
       THEN /\ user_data' = [user_data EXCEPT
                   ![u].conversation_state = "student_submit",
                   ![u].temp_data = [files |-> 0, step |-> "files"]]
            /\ reply' = Msg(u, "submit_homework_start", "submit_homework")
       ELSE /\ reply' = Msg(u, "submit_homework_start", "refused")
            /\ UNCHANGED user_data
    /\ UNCHANGED <<dbvars, user_sessions, conv, clock, storevars>>

\* teacher.create_assignment_start
create_assignment_start(u, accepted) ==
    /\ IF accepted
       THEN /\ user_data' = [user_data EXCEPT
                   ![u].conversation_state = "teacher_create_assignment",
                   ![u].temp_data = [files |-> 0, step |-> "files"]]
            /\ reply' = Msg(u, "create_assignment_start", "create_assignment")
       ELSE /\ reply' = Msg(u, "create_assignment_start", "refused")
            /\ UNCHANGED user_data
    /\ UNCHANGED <<dbvars, user_sessions, conv, clock, storevars>>

\* common.handle_file_message: a photo or document is routed by the state to
\* teacher.handle_assignment_files (no limit; most is the number of files after
\* which the teacher sends no more) or to student.handle_submission_files
handle_file_message(u, most) ==
    /\ LET state == user_data[u].conversation_state
           files == user_data[u].temp_data.files
       IN  IF state = "none"
           THEN /\ reply' = Msg(u, "handle_file_message", "use_command_first")
                /\ UNCHANGED user_data
           ELSE IF state = "teacher_create_assignment"
           THEN /\ files < most
                /\ user_data' = [user_data EXCEPT ![u].temp_data.files = files + 1]
                /\ reply' = [Msg(u, "handle_assignment_files", "file_added")
                             EXCEPT !.num = files + 1]
           ELSE IF files >= MAX_PHOTOS_PER_SUBMISSION
           THEN /\ reply' = Msg(u, "handle_submission_files", "maximum_files")
                /\ UNCHANGED user_data
           ELSE /\ user_data' = [user_data EXCEPT ![u].temp_data.files = files + 1]
                /\ reply' = [Msg(u, "handle_submission_files", "file_added")
                             EXCEPT !.num = files + 1]
    /\ UNCHANGED <<dbvars, user_sessions, conv, clock, storevars>>

\* teacher.handle_done_command, with handle_assignment_done
teacher_handle_done_command(u) ==
    IF user_data[u].conversation_state = "teacher_create_assignment"
    THEN /\ user_data' = [user_data EXCEPT ![u].temp_data.step = "title"]
         /\ reply' = Msg(u, "teacher.handle_done_command", "enter_title")
    ELSE /\ reply' = Msg(u, "teacher.handle_done_command", "done_not_expected")
         /\ UNCHANGED user_data

\* student.handle_done_command, with handle_submission_done
student_handle_done_command(u) ==
    IF user_data[u].conversation_state = "student_submit"
    THEN IF user_data[u].temp_data.files = 0
         THEN /\ reply' = Msg(u, "student.handle_done_command", "no_files")
              /\ UNCHANGED user_data
         ELSE /\ user_data' = [user_data EXCEPT ![u].temp_data.step = "explanation"]
              /\ reply' = Msg(u, "student.handle_done_command", "add_explanation")
    ELSE /\ reply' = Msg(u, "student.handle_done_command", "done_not_expected")
         /\ UNCHANGED user_data

\* setup_bot: the CommandHandlers of "done" in the order of add_handler
DoneHandlers == <<"teacher", "student">>

\* /done: the handlers are in one group, the first one that matches handles
\* the update and no other is tried
done_command(u) ==
    /\ IF DoneHandlers[1] = "teacher"
       THEN teacher_handle_done_command(u)
       ELSE student_handle_done_command(u)
    /\ UNCHANGED <<dbvars, user_sessions, conv, clock, storevars>>

\* common.clear_conversation_state, as /start and the end of a flow call it
clear_conversation_state(u) ==
    /\ user_data[u].conversation_state # "none"
    /\ user_data' = [user_data EXCEPT ![u].conversation_state = "none",
                                      ![u].temp_data = NoTempData]
    /\ reply' = Msg(u, "clear_conversation_state", "cleared")
    /\ UNCHANGED <<dbvars, user_sessions, conv, clock, storevars>>

InitDone ==
    /\ Roster
    /\ modules = <<>>
    /\ tasks = <<>>
    /\ submissions = <<>>
    /\ grades = <<>>
    /\ user_sessions = [u \in Users |-> NoSession]
    /\ user_data = [u \in Users |-> EmptyUserData]
    /\ conv = [u \in Users |-> EmptyConv]
    /\ reply = Msg("t", "none", "none")
    /\ clock = 0
    /\ StoreIdle

NextDone ==
    \/ \E u \in StudentUsers, accepted \in BOOLEAN : submit_homework_start(u, accepted)
    \/ \E u \in TeacherUsers, accepted \in BOOLEAN : create_assignment_start(u, accepted)
    \/ \E u \in Users : handle_file_message(u, MaxUploads)
    \/ \E u \in Users : done_command(u)
    \/ \E u \in Users : clear_conversation_state(u)

SpecDone == InitDone /\ [][NextDone]_vars

\* Group ownership while teachers come and go: "t" is authenticated as the
\* teacher of group 2, "s1" as the teacher of group 1, "s2" as the admin.
InitOwner ==
    /\ admins = {ADMIN_PHONE}
    /\ teachers = <<[id |-> 1, phone_number |-> PhoneB],
                    [id |-> 2, phone_number |-> PhoneT]>>
    /\ groups = <<[id |-> 1, channel_id |-> "c1", teacher_id |-> 1],
                  [id |-> 2, channel_id |-> "c2", teacher_id |-> 2]>>
    /\ students = <<>>
    /\ modules = <<>>
    /\ tasks = <<>>
    /\ submissions = <<>>
    /\ grades = <<>>
    /\ user_sessions = [u \in Users |-> NoSession]
    /\ user_data = [u \in Users |->
           IF u = "t" THEN Authenticated(PhoneT, "teacher")
           ELSE IF u = "s1" THEN Authenticated(PhoneB, "teacher")
           ELSE Authenticated(ADMIN_PHONE, "admin")]
    /\ conv = [u \in Users |-> EmptyConv]
    /\ reply = Msg("t", "none", "none")
    /\ clock = 0
    /\ StoreIdle

NextOwner ==
    \/ \E u \in {"t"} :
        \/ show_my_groups(u)
        \/ \E group_id \in 1..MaxGroups : select_group(u, group_id)
        \/ show_main_menu(u)
    \/ \E u \in {"s1"} :
        \/ start_create_group(u)
        \/ \E text \in {"cancel", "text"} : receive_group_name(u, text)
        \/ \E text \in {"cancel", "text"} : receive_channel_id(u, text)
    \/ \E u \in {"s2"} :
        \/ start_delete_teacher(u)
        \/ \E selected_text \in DeleteTexts : confirm_delete_teacher(u, selected_text)
        \/ start_create_teacher(u)
        \/ \E message \in {"cancel", "text"} : receive_teacher_name(u, message)
        \/ \E teacher_phone \in TeacherPhoneTexts : receive_teacher_phone(u, teacher_phone)

SpecOwner == InitOwner /\ [][NextOwner]_vars

\* ------------------------- task and module creation, statement by statement
\* Every statement of a handler is its own committed transaction (database.py
\* 144-166).  Two runs of receive_task_photos or of create_new_module against
\* the same database file proceed statement by statement.

\* receive_task_photos: get_user_session and _get_current_module
CreateTaskRead(p, group_id) ==
    /\ calls[p].pc = "idle"
    /\ Len(tasks) < MaxTasks
    /\ calls' = [calls EXCEPT ![p] =
           [Begin(p, [NoCall EXCEPT !.op = "create_task", !.selected_group_id = group_id])
            EXCEPT !.pc = "UPDATE_TASKS", !.raised = FALSE,
                   !.read = _get_current_module(group_id).id]]
    /\ UNCHANGED <<dbvars, user_sessions, user_data, conv, reply, clock, session_rows>>

\* UPDATE tasks SET is_active = FALSE ...; current_module['id'] raises next
\* when the group has no module
CreateTaskUpdate(p) ==
    /\ calls[p].pc = "UPDATE_TASKS"
    /\ tasks' = DeactivateTasks(calls[p].call.selected_group_id)
    /\ calls' = [calls EXCEPT ![p].pc = IF calls[p].read = 0 THEN "idle" ELSE "INSERT_TASK",
                              ![p].raised = calls[p].read = 0]
    /\ reply' = Msg("t", "CreateTaskUpdate", p)
    /\ UNCHANGED <<admins, teachers, groups, students, modules, submissions, grades,
                   user_sessions, user_data, conv, clock, session_rows>>

\* INSERT INTO tasks (module_id, description, photos, is_active)
CreateTaskInsert(p) ==
    /\ calls[p].pc = "INSERT_TASK"
    /\ Len(tasks) < MaxTasks
    /\ tasks' = Append(tasks,
           [id |-> NextId(tasks), module_id |-> calls[p].read,
            is_active |-> TRUE, created_at |-> clock + 1])
    /\ clock' = clock + 1
    /\ calls' = [calls EXCEPT ![p].pc = "idle"]
    /\ reply' = Msg("t", "CreateTaskInsert", p)
    /\ UNCHANGED <<admins, teachers, groups, students, modules, submissions, grades,
                   user_sessions, user_data, conv, session_rows>>

\* create_new_module: SELECT MAX(module_number) ... WHERE group_id = ?
CreateModuleSelect(p, group_id) ==
    /\ calls[p].pc = "idle"
    /\ Len(modules) < MaxModules
    /\ calls' = [calls EXCEPT ![p] =
           [Begin(p, [NoCall EXCEPT !.op = "create_module", !.selected_group_id = group_id])
            EXCEPT !.pc = "INSERT_MODULE", !.raised = FALSE,
                   !.read = NextModuleNumber(group_id)]]
    /\ UNCHANGED <<dbvars, user_sessions, user_data, conv, reply, clock, session_rows>>

\* INSERT INTO modules (group_id, module_number); the UNIQUE constraint makes
\* the statement raise, which the handler answers with something_wrong
CreateModuleInsert(p) ==
    /\ calls[p].pc = "INSERT_MODULE"
    /\ LET group_id == calls[p].call.selected_group_id
           next_module_number == calls[p].read
       IN  IF ModuleUniqueOk(group_id, next_module_number)
           THEN /\ Len(modules) < MaxModules
                /\ modules' = Append(modules,
                       [id |-> NextId(modules), group_id |-> group_id,
                        module_number |-> next_module_number])
                /\ calls' = [calls EXCEPT ![p].pc = "idle"]
           ELSE /\ calls' = [calls EXCEPT ![p].pc = "idle", ![p].raised = TRUE]
                /\ UNCHANGED modules
    /\ reply' = Msg("t", "CreateModuleInsert", p)
    /\ UNCHANGED <<admins, teachers, groups, students, tasks, submissions, grades,
                   user_sessions, user_data, conv, clock, session_rows>>

\* Two handler runs at work on the groups of the roster, which have no module
\* yet.
InitWrites ==
    /\ Roster
    /\ modules = <<>>
    /\ tasks = <<>>
    /\ submissions = <<>>
    /\ grades = <<>>
    /\ user_sessions = [u \in Users |-> NoSession]
    /\ user_data = [u \in Users |-> EmptyUserData]
    /\ conv = [u \in Users |-> EmptyConv]
    /\ reply = Msg("t", "none", "none")
    /\ clock = 1
    /\ StoreIdle

NextWrites ==
    \E p \in Callers :
        \/ \E group_id \in {1, 2} : CreateTaskRead(p, group_id)
        \/ CreateTaskUpdate(p)
        \/ CreateTaskInsert(p)
        \/ \E group_id \in {1, 2} : CreateModuleSelect(p, group_id)
        \/ CreateModuleInsert(p)

SpecWrites == InitWrites /\ [][NextWrites]_vars

\* ----------------------------------------- grading, statement by statement
\* receive_grade writes twice: INSERT INTO grades, then UPDATE submissions SET
\* is_graded = TRUE, each committed on its own; a statement may raise
\* sqlite3.Error (a locked or unwritable database file), which ends the
\* handler in its except branch.
Raises == {FALSE, TRUE}

\* current_submission from user_data and the module lookup by its task
GradeRead(p, submission_id, grade) ==
    /\ calls[p].pc = "idle"
    /\ SubmissionById(submission_id) # NoRow
    /\ calls' = [calls EXCEPT ![p] =
           [Begin(p, [NoCall EXCEPT !.op = "receive_grade",
                                    !.selected_group_id = submission_id])
            EXCEPT !.pc = "INSERT_GRADE", !.raised = FALSE, !.read = grade]]
    /\ UNCHANGED <<dbvars, user_sessions, user_data, conv, reply, clock, session_rows>>

\* INSERT INTO grades (submission_id, module_id, student_id, score)
GradeInsert(p, error) ==
    /\ calls[p].pc = "INSERT_GRADE"
    /\ LET current_submission == SubmissionById(calls[p].call.selected_group_id)
       IN  IF error \/ ~GradeUniqueOk(current_submission.id)
           THEN /\ calls' = [calls EXCEPT ![p].pc = "idle", ![p].raised = TRUE]
                /\ UNCHANGED <<grades, clock>>
           ELSE /\ grades' = Append(grades,
                       [id |-> NextId(grades), submission_id |-> current_submission.id,
                        module_id |-> TaskById(current_submission.task_id).module_id,
                        student_id |-> current_submission.student_id,
                        score |-> calls[p].read, graded_at |-> clock + 1])
                /\ clock' = clock + 1
                /\ calls' = [calls EXCEPT ![p].pc = "UPDATE_SUBMISSION"]
    /\ reply' = [Msg("t", "GradeInsert", p) EXCEPT !.num = IF error THEN 1 ELSE 0]
    /\ UNCHANGED <<admins, teachers, groups, students, modules, tasks, submissions,
                   user_sessions, user_data, conv, session_rows>>

\* UPDATE submissions SET is_graded = TRUE WHERE id = ?
GradeMark(p, error) ==
    /\ calls[p].pc = "UPDATE_SUBMISSION"
    /\ IF error
       THEN /\ calls' = [calls EXCEPT ![p].pc = "idle", ![p].raised = TRUE]
            /\ UNCHANGED submissions
       ELSE /\ submissions' = [i \in DOMAIN submissions |->
                   IF submissions[i].id = calls[p].call.selected_group_id
                   THEN [submissions[i] EXCEPT !.is_graded = TRUE]
                   ELSE submissions[i]]
            /\ calls' = [calls EXCEPT ![p].pc = "idle"]
    /\ reply' = [Msg("t", "GradeMark", p) EXCEPT !.num = IF error THEN 1 ELSE 0]
    /\ UNCHANGED <<admins, teachers, groups, students, modules, tasks, grades,
                   user_sessions, user_data, conv, clock, session_rows>>

\* Both students of group 1 submitted task 1; nothing is graded yet.
InitGrading ==
    /\ Roster
    /\ modules = <<[id |-> 1, group_id |-> 1, module_number |-> 1]>>
    /\ tasks = <<[id |-> 1, module_id |-> 1, is_active |-> TRUE, created_at |-> 1]>>
    /\ submissions =
           <<[id |-> 1, task_id |-> 1, student_id |-> 1, submitted_at |-> 2,
              is_graded |-> FALSE, photos |-> 1],
             [id |-> 2, task_id |-> 1, student_id |-> 2, submitted_at |-> 3,
              is_graded |-> FALSE, photos |-> 1]>>
    /\ grades = <<>>
    /\ user_sessions = [u \in Users |-> NoSession]
    /\ user_data = [u \in Users |-> EmptyUserData]
    /\ conv = [u \in Users |-> EmptyConv]
    /\ reply = Msg("t", "none", "none")
    /\ clock = 3
    /\ StoreIdle

NextGrading ==
    \E p \in Callers :
        \/ \E submission_id \in {1, 2}, grade \in {GRADE_LOW, GRADE_HIGH} :
               GradeRead(p, submission_id, grade)
        \/ \E error \in Raises : GradeInsert(p, error)
        \/ \E error \in Raises : GradeMark(p, error)

SpecGrading == InitGrading /\ [][NextGrading]_vars

\* --------------------------------------------------- database/models.py
\* config.LATE_PENALTY_RATE is 0.3; rates are counted in tenths
LATE_PENALTY_RATE == 3
\* Grade.max_points and Assignment.max_points
DEFAULT_MAX_POINTS == 20

Assignment(assignment_id, group_id, module_id, deadline) ==
    [assignment_id |-> assignment_id, group_id |-> group_id, module_id |-> module_id,
     deadline |-> deadline, max_points |-> DEFAULT_MAX_POINTS, is_active |-> TRUE]

Submission(submission_id, assignment_id, student_id, submitted_at) ==
    [submission_id |-> submission_id, assignment_id |-> assignment_id,
     student_id |-> student_id, submitted_at |-> submitted_at,
     is_graded |-> FALSE, queue_position |-> 0]

\* Grade.__init__: no penalty is applied, the final score is the points earned
Grade(grade_id, submission_id, teacher_id, points_earned) ==
    [grade_id |-> grade_id, submission_id |-> submission_id, teacher_id |-> teacher_id,
     points_earned |-> points_earned, max_points |-> DEFAULT_MAX_POINTS,
     late_penalty_applied |-> 0, final_score |-> points_earned]

\* "if now > deadline": the submission came in after the assignment's deadline
IsLate(submission) ==
    \E a \in Range(tasks) :
        a.assignment_id = submission.assignment_id /\ submission.submitted_at > a.deadline

\* The records of database/models.py: one assignment with a deadline, two
\* submissions handed in before or after it, graded one at a time.
DeadlineTimes == {2, 3}
SubmitTimes == {1, 3, 4}

InitModels ==
    /\ admins = {}
    /\ teachers = <<[id |-> 1, phone_number |-> PhoneT]>>
    /\ groups = <<[id |-> 1, channel_id |-> "c1", teacher_id |-> 1]>>
    /\ students = <<[id |-> 1, phone_number |-> PhoneA, fullname |-> "Ali", group_id |-> 1],
                    [id |-> 2, phone_number |-> PhoneB, fullname |-> "Vali", group_id |-> 1]>>
    /\ modules = <<[id |-> 1, group_id |-> 1, module_number |-> 1]>>
    /\ \E deadline \in DeadlineTimes : tasks = <<Assignment(1, 1, 1, deadline)>>
    /\ \E at1, at2 \in SubmitTimes :
           submissions = <<Submission(1, 1, 1, at1), Submission(2, 1, 2, at2)>>
    /\ grades = <<>>
    /\ user_sessions = [u \in Users |-> NoSession]
    /\ user_data = [u \in Users |-> EmptyUserData]
    /\ conv = [u \in Users |-> EmptyConv]
    /\ reply = Msg("t", "none", "none")
    /\ clock = 4
    /\ StoreIdle

\* a Grade record is made for a submission that has none yet
GradeSubmission(submission_id, points_earned) ==
    /\ \E i \in DOMAIN submissions :
           /\ submissions[i].submission_id = submission_id
           /\ ~submissions[i].is_graded
           /\ submissions' = [submissions EXCEPT ![i].is_graded = TRUE]
    /\ grades' = Append(grades, Grade(Len(grades) + 1, submission_id, 1, points_earned))
    /\ reply' = [Msg("t", "Grade", "graded") EXCEPT !.sub = submission_id,
                                                    !.num = points_earned]
    /\ UNCHANGED <<admins, teachers, groups, students, modules, tasks,
                   user_sessions, user_data, conv, clock, storevars>>

NextModels ==
    \E submission_id \in {1, 2}, points_earned \in 0..DEFAULT_MAX_POINTS :
        GradeSubmission(submission_id, points_earned)

SpecModels == InitModels /\ [][NextModels]_vars

\* ------------------------------------------------------------- properties
TasksOfGroup(group_id) == {t \in Range(tasks) : GroupOfTask(t.id) = group_id}

\* C1: after any sequence of task creations every group has at most one
\* active task, and the active task is the most recently created task of the
\* group.
C1_OneActiveTask ==
    \A g \in Range(groups) :
        LET mine == TasksOfGroup(g.id)
            active == {t \in mine : t.is_active}
        IN  /\ Cardinality(active) <= 1
            /\ \A t \in active : \A q \in mine : q.created_at <= t.created_at

C1_SecondTaskCreated ==
    \E g \in Range(groups) :
        /\ Cardinality(TasksOfGroup(g.id)) >= 2
        /\ Cardinality({t \in TasksOfGroup(g.id) : t.is_active}) = 1

\* C2: in every group the k-th module created carries module_number k, the
\* number announced to the teacher is that number, and at most one module of
\* the group is the current one (the one with the highest number).
C2_ModuleNumbering ==
    /\ \A g \in Range(groups) :
           LET rows == ModulesOfGroup(g.id)
               current == {m \in Range(rows) :
                              \A q \in Range(rows) : q.module_number <= m.module_number}
           IN  /\ \A k \in DOMAIN rows : rows[k].module_number = k
               /\ Cardinality(current) <= 1
               /\ rows # <<>> => current = {rows[Len(rows)]}
    /\ (reply.handler = "create_new_module" /\ reply.msg = "module_created")
           => reply.num = Len(ModulesOfGroup(user_sessions[reply.to].selected_group_id))

C2_SecondModuleCreated ==
    /\ reply.handler = "create_new_module"
    /\ reply.msg = "module_created"
    /\ reply.num = 2

\* no two rows of the submissions table have the same task and student
C3_UniquePairs ==
    \A i, j \in DOMAIN submissions :
        (/\ submissions[i].task_id = submissions[j].task_id
         /\ submissions[i].student_id = submissions[j].student_id) => i = j

PairSubmitted(task_id, student_id) ==
    \E r \in Range(submissions) : r.task_id = task_id /\ r.student_id = student_id

\* a step of the submission flow: a submit for a pair that has a row is
\* rejected, and no step alters or removes a row that exists
C3_SubmitStep ==
    LET u == reply'.to
        student == _get_student_by_phone(user_data[u].user_phone)
        active_task == IF student = NoRow THEN NoRow
                       ELSE _get_active_task(student.group_id)
    IN  /\ (/\ reply'.handler = "start_submit_task"
            /\ PairSubmitted(active_task.id, student.id))
               => /\ reply'.msg = "already_submitted"
                  /\ submissions' = submissions
                  /\ conv' = conv
        /\ (/\ reply'.handler = "_finalize_submission"
            /\ PairSubmitted(user_data[u].submitting_task, student.id))
               => /\ reply'.msg = "something_wrong"
                  /\ submissions' = submissions
        /\ reply'.handler \in {"start_submit_task", "_finalize_submission",
                               "receive_submission_photos",
                               "receive_submission_description", "show_current_task"}
               => /\ Len(submissions') >= Len(submissions)
                  /\ \A i \in DOMAIN submissions : submissions'[i] = submissions[i]

\* C3: at most one submission row ever exists for a (task, student) pair; a
\* second submit for the pair is rejected, by start_submit_task or at the insert
\* of _finalize_submission, and leaves the rows that exist unchanged.
C3_OneSubmissionPerPair == []C3_UniquePairs /\ [][C3_SubmitStep]_vars

C3_SecondSubmitRejectedAtInsert ==
    /\ reply.handler = "_finalize_submission"
    /\ reply.msg = "something_wrong"
    /\ PairSubmitted(user_data[reply.to].submitting_task,
                     _get_student_by_phone(user_data[reply.to].user_phone).id)

\* every stored grade is within the range and no submission has two grades
C4_StoredGrades ==
    /\ \A g \in Range(grades) : GRADE_LOW <= g.score /\ g.score <= GRADE_HIGH
    /\ \A i, j \in DOMAIN grades :
           grades[i].submission_id = grades[j].submission_id => i = j

\* a grading step with points outside the range, or for a submission that has
\* a grade, is rejected and writes nothing
C4_GradeStep ==
    reply'.handler = "receive_grade" =>
        LET u == reply'.to
            has_grade == \E g \in Range(grades) :
                             g.submission_id = user_data[u].current_submission
        IN  /\ (reply'.num < GRADE_LOW \/ reply'.num > GRADE_HIGH)
                   => /\ reply'.msg = "grade_out_of_range"
                      /\ grades' = grades
                      /\ submissions' = submissions
            /\ has_grade => /\ reply'.msg \in {"grade_out_of_range", "something_wrong"}
                            /\ grades' = grades
                            /\ submissions' = submissions

C5_OldestPresented ==
    (/\ reply.handler = "start_grading"
     /\ user_sessions[reply.to] # NoSession
     /\ UngradedOfGroup(submissions, user_sessions[reply.to].selected_group_id) # <<>>)
        => LET first == UngradedOfGroup(submissions,
                            user_sessions[reply.to].selected_group_id)[1]
           IN  /\ reply.sub = first.id
               /\ user_data[reply.to].current_submission = first.id

ResolutionAnswered == reply.handler \in {"receive_phone_text", "receive_phone_contact"}

\* Eligibility as the specification words it, for the phone and the oracle
\* answers of the last resolution: the configured admin phone; a teacher
\* record and active membership of the teachers' group; a student record and
\* active membership of the channel of the student's group.
ActiveStatuses == {"creator", "administrator", "member"}

HasTeacherRecord == \E r \in Range(teachers) : r.phone_number = reply.phone

HasStudentRecord == \E r \in Range(students) : r.phone_number = reply.phone

EligibleRoles ==
    (IF reply.phone = ADMIN_PHONE THEN {"admin"} ELSE {})
        \cup (IF HasTeacherRecord /\ reply.oracleT \in ActiveStatuses
              THEN {"teacher"} ELSE {})
        \cup (IF HasStudentRecord /\ reply.oracleS \in ActiveStatuses
              THEN {"student"} ELSE {})

\* C7: a phone that is not the admin phone and matches no teacher and no
\* student record resolves to no access, whatever the oracle answers; the
\* user is told so and gets no role.
C7_NoRecordNoAccess ==
    (/\ ResolutionAnswered
     /\ reply.phone # ADMIN_PHONE
     /\ ~HasTeacherRecord
     /\ ~HasStudentRecord)
        => /\ reply.result = [type |-> "none", roles |-> <<>>]
           /\ reply.msg = "auth_failed"
           /\ user_data[reply.to].user_type = NoRole

C7_UnknownPhoneWithMemberships ==
    /\ ResolutionAnswered
    /\ reply.phone = <<"+", "9", "9", "8", "9">>
    /\ reply.oracleT = "member"
    /\ reply.oracleS = "member"
    /\ reply.result.type = "none"

\* C8: a principal eligible under exactly one role resolves to exactly that
\* role, and when the role is admin the admins table holds the normalized
\* phone afterwards.
C8_SingleRole ==
    (ResolutionAnswered /\ Cardinality(EligibleRoles) = 1)
        => /\ reply.result.type = "single"
           /\ Len(reply.result.roles) = 1
           /\ reply.result.roles[1] \in EligibleRoles
           /\ user_data[reply.to].user_type = reply.result.roles[1]
           /\ "admin" \in EligibleRoles => reply.phone \in admins

C8_AdminProvisioned ==
    /\ ResolutionAnswered
    /\ EligibleRoles = {"admin"}
    /\ HasTeacherRecord
    /\ reply.result = [type |-> "single", roles |-> <<"admin">>]
    /\ ADMIN_PHONE \in admins

\* C9: a principal eligible under two or more roles resolves to a multi-role
\* result whose list holds exactly the eligible roles in the order admin,
\* teacher, student.
C9_MultiRole ==
    (ResolutionAnswered /\ Cardinality(EligibleRoles) >= 2)
        => /\ reply.result.type = "dual_role"
           /\ reply.result.roles =
                  SelectSeq(<<"admin", "teacher", "student">>,
                            LAMBDA r : r \in EligibleRoles)

C9_ThreeRoles ==
    /\ ResolutionAnswered
    /\ reply.result.type = "dual_role"
    /\ reply.result.roles = <<"admin", "teacher", "student">>

\* C10: when the oracle call of one role check raises, that role is not in the
\* result, and the other roles are in the result exactly when they are
\* eligible; the command bot's membership check fails closed as well.
C10_FailClosed ==
    /\ ~check_group_membership("error")
    /\ ResolutionAnswered =>
           LET resolved == Range(reply.result.roles)
           IN  /\ (reply.oracleT = "error" /\ HasTeacherRecord)
                      => /\ "teacher" \notin resolved
                         /\ resolved = EligibleRoles \ {"teacher"}
               /\ (reply.oracleS = "error" /\ HasStudentRecord)
                      => /\ "student" \notin resolved
                         /\ resolved = EligibleRoles \ {"student"}

C10_TeacherCheckFailedStudentKept ==
    /\ ResolutionAnswered
    /\ reply.oracleT = "error"
    /\ HasTeacherRecord
    /\ reply.result = [type |-> "single", roles |-> <<"student">>]

\* a multi-role resolution is waiting for the principal's choice
SelectionPending(u) == user_data[u].available_roles # <<>>

\* handlers that serve one role's keyboard
RoleScopedHandlers ==
    {"show_my_groups", "select_group", "create_new_module", "start_create_task",
     "start_grading", "receive_grade", "start_create_teacher", "receive_teacher_name",
     "receive_teacher_phone", "view_all_teachers", "start_delete_teacher",
     "confirm_delete_teacher", "start_add_student", "show_current_task",
     "start_submit_task"}

\* C11: while a multi-role resolution awaits the principal's selection (after
\* authentication and after a role switch) the principal has no active role,
\* and no role-scoped handler acts on the principal's input.
C11_NoRoleWhilePending ==
    /\ [](\A u \in Users : SelectionPending(u) => user_data[u].user_type = NoRole)
    /\ [][\A u \in Users :
             SelectionPending(u) /\ reply'.to = u
                 => reply'.handler \notin RoleScopedHandlers]_vars

\* a row with an id the table did not hold before
RowCreated(old, new) == \E r \in Range(new) : \A q \in Range(old) : q.id # r.id

\* C12: a role-scoped action by a principal without the matching active role
\* changes no state: the teachers table changes only by a principal whose
\* active role is admin; modules, tasks, students and grades are created only
\* by a principal whose active role is teacher.
C12_RoleScopedDenied ==
    [][/\ teachers' # teachers => user_data[reply'.to].user_type = "admin"
       /\ (\/ RowCreated(modules, modules') \/ RowCreated(tasks, tasks')
           \/ RowCreated(students, students') \/ RowCreated(grades, grades'))
              => user_data[reply'.to].user_type = "teacher"]_vars

C14_AtMostOneRow ==
    \A user_id \in SessionUsers : Len(RowsOf(session_rows, user_id)) <= 1

\* one set has completed while another set for the same principal, started
\* before, still has its INSERT to run
C14_ConcurrentSetsCollide ==
    /\ calls["p"].pc = "idle" /\ calls["p"].call.op = "set"
    /\ calls["q"].pc = "INSERT"
    /\ calls["q"].call.user_id = calls["p"].call.user_id
    /\ calls["q"].call.selected_group_id # calls["p"].call.selected_group_id
    /\ RowsOf(session_rows, calls["p"].call.user_id) # <<>>

\* C15: for every principal and every prior session state, clear_user_session
\* followed by get_user_session returns None.
C15_ClearThenGet ==
    \A p \in Callers :
        (/\ calls[p].call.op = "get" /\ calls[p].prev.op = "clear"
         /\ calls[p].prev.user_id = calls[p].call.user_id)
        => calls[p].result = NoSession

\* a principal's session was cleared, then read, while another principal's
\* row stays in the table
C15_ClearedThenRead ==
    /\ calls["p"].call.op = "get" /\ calls["p"].prev.op = "clear"
    /\ calls["p"].prev.user_id = calls["p"].call.user_id
    /\ calls["p"].result = NoSession
    /\ session_rows # <<>>

GroupScopedCommands ==
    {"create_new_module", "start_create_task", "start_grading", "start_add_student"}

\* C16: without a session row every group-scoped command (create module, start
\* task creation, start grading, start adding a student) answers with the
\* no-group prompt and leaves modules, tasks, students, grades and the session
\* store unchanged; no conversation is entered.
C16_NoSessionRejected ==
    [][\A u \in Users :
          (/\ user_sessions[u] = NoSession
           /\ reply'.to = u
           /\ reply'.handler \in GroupScopedCommands)
          => /\ reply'.msg = "no_group_selected"
             /\ UNCHANGED <<modules, tasks, students, grades, user_sessions, conv>>]_vars

\* start_add_student was rejected after modules, a task and a student had been
\* created and the session had been cleared by the menu
C16_AddStudentRejected ==
    /\ reply.handler = "start_add_student"
    /\ reply.msg = "no_group_selected"
    /\ user_sessions["t"] = NoSession
    /\ modules # <<>>
    /\ Len(students) > 3

\* the module row with the given id, in the given table
ModuleRow(table, module_id) == CHOOSE r \in Range(table) : r.id = module_id

\* C17: task creation for a group without a module is rejected and creates no
\* task; every task created is bound to the module that has the highest
\* module_number of the selected group at the moment of creation.
C17_TaskBoundToCurrentModule ==
    [][\A u \in Users :
          reply'.to = u =>
            LET group_id == user_sessions[u].selected_group_id
            IN  /\ (/\ reply'.handler = "start_create_task"
                     /\ user_sessions[u] # NoSession
                     /\ \A r \in Range(modules) : r.group_id # group_id)
                    => /\ reply'.msg = "module_needed"
                       /\ UNCHANGED <<tasks, conv>>
                /\ RowCreated(tasks, tasks')
                    => \E r \in Range(modules) :
                          /\ r.id = tasks'[Len(tasks')].module_id
                          /\ r.group_id = group_id
                          /\ \A q \in Range(modules) :
                                 q.group_id = group_id => q.module_number <= r.module_number]_vars

\* a task is bound to the second module of its group, and task creation for
\* the other group, which has no module, has just been rejected
C17_RejectedAndBound ==
    /\ reply.handler = "start_create_task"
    /\ reply.msg = "module_needed"
    /\ \E t \in Range(tasks) : ModuleRow(modules, t.module_id).module_number = 2

\* C18: no submission is inserted for a task that is inactive (superseded by a
\* newer task) at the moment of the insert, however the student's submission
\* flow interleaves with the teacher's creation of a new task for the group.
C18_NoSubmissionToInactiveTask ==
    [][RowCreated(submissions, submissions')
          => TaskById(submissions'[Len(submissions')].task_id).is_active]_vars

\* the grades the ranking of a student's group is about: those of the
\* group's module with the highest number
RankedGrades(u) ==
    LET group_id == get_student_group(user_data[u].user_phone).id
        current == _get_current_module(group_id)
    IN  {g \in Range(grades) : g.module_id = current.id}

RECURSIVE SumScores(_)
SumScores(rows) ==
    IF rows = {} THEN 0
    ELSE LET r == CHOOSE x \in rows : TRUE
         IN  r.score + SumScores(rows \ {r})

TotalOf(u, student_id) ==
    SumScores({g \in RankedGrades(u) : g.student_id = student_id})

LastGradedAt(u, student_id) ==
    Max({g.graded_at : g \in {x \in RankedGrades(u) : x.student_id = student_id}})

RankingShown == reply.handler = "show_leaderboard" /\ reply.msg = "leaderboard"

ActiveTasksOf(group_id) == {t \in TasksOfGroup(group_id) : t.is_active}

C26_ModuleNumbersUnique ==
    /\ \A i, j \in DOMAIN modules :
           (modules[i].group_id = modules[j].group_id
            /\ modules[i].module_number = modules[j].module_number) => i = j
    /\ \A i, j \in DOMAIN modules :
           (i < j /\ modules[i].group_id = modules[j].group_id)
               => modules[i].module_number < modules[j].module_number

\* two creators read the same maximum; one inserted, the other's INSERT raised
C26_ConcurrentCreatorsCollide ==
    \E p, q \in Callers :
        /\ p # q
        /\ calls[p].pc = "idle" /\ calls[p].call.op = "create_module" /\ calls[p].raised
        /\ calls[q].pc = "idle" /\ calls[q].call.op = "create_module" /\ ~calls[q].raised
        /\ calls[p].read = calls[q].read
        /\ calls[p].call.selected_group_id = calls[q].call.selected_group_id
        /\ \E r \in Range(modules) :
               r.group_id = calls[q].call.selected_group_id /\ r.module_number = calls[q].read

\* C24: when a task creation fails after the deactivation (the handler ends
\* in its except branch), every task that was active before is still active.
C24_FailedCreateKeepsActive ==
    [][(reply'.handler = "receive_task_photos" /\ reply'.msg = "something_wrong")
          => \A t \in Range(tasks) :
                 t.is_active => \E n \in Range(tasks') : n.id = t.id /\ n.is_active]_vars

GradesFor(submission_id) == {g \in Range(grades) : g.submission_id = submission_id}

EnrolledAsMember(phone_number) ==
    {st \in Range(students) :
        /\ st.phone_number = phone_number
        /\ \E g \in Range(groups) :
               g.id = st.group_id /\ _check_channel_membership(g.member_status)}

\* C27: role resolution finds the student role eligible exactly when the
\* normalized phone has a student record whose group's channel the principal
\* is an active member of, also for a phone enrolled in more than one group.
C27_StudentEligibleIffMember ==
    reply.handler \in {"receive_phone_text", "receive_phone_contact"} =>
        ("student" \in Range(reply.result.roles)
            <=> EnrolledAsMember(reply.phone) # {})

\* C28: when the lookup of one role raises a storage error, resolution
\* returns a result, that role alone is not eligible, and every other role is
\* decided as it is without the error.
C28_LookupErrorIsolated ==
    reply.handler = "get_user_type" =>
        LET f == RoleFlags(reply.phone, reply.oracleT, reply.oracleS)
            roles == Range(reply.result.roles)
        IN  /\ reply.result.type # "raised"
            /\ "admin" \in roles <=> f.is_admin
            /\ "teacher" \in roles <=> (f.is_teacher /\ "teachers" \notin reply.errors)
            /\ "student" \in roles <=>
                   (f.is_student /\ reply.errors \cap {"students", "groups"} = {})

\* the teacher lookup raised for a phone that is a teacher's and a student's:
\* the student role alone is returned
C28_TeacherLookupFailed ==
    /\ reply.handler = "get_user_type"
    /\ reply.errors = {"teachers"}
    /\ RoleFlags(reply.phone, reply.oracleT, reply.oracleS).is_teacher
    /\ reply.result = [type |-> "single", roles |-> <<"student">>]

\* C29: after a role switch (the switch is requested while a role is active,
\* then one of the eligible roles is selected) the principal has no session
\* row, until a group is selected again.
C29_NoSessionAfterSwitch ==
    [][(/\ reply'.handler = "_handle_role_selection"
        /\ reply'.msg = "welcome_role"
        /\ user_data[reply'.to].user_type # NoRole)
          => user_sessions'[reply'.to] = NoSession]_vars

\* C30: a number is processed as a grade only when the principal's active
\* role is teacher and the session exists with mode 'grading'; otherwise it
\* is handled as generic text, and no grade row is written.
C30_GradeOnlyInGradingSession ==
    [][LET u == reply'.to
           grading == /\ user_data[u].user_type = "teacher"
                      /\ user_sessions[u] # NoSession
                      /\ user_sessions[u].session_type = "grading"
       IN  /\ reply'.handler = "receive_grade" => grading
           /\ reply'.handler = "handle_text_message" => ~grading /\ grades' = grades
           /\ grades' # grades => grading /\ reply'.handler = "receive_grade"]_vars

\* a grade was recorded for a number sent in a grading session
C30_GradeRecorded ==
    /\ reply.handler = "receive_grade" /\ reply.msg = "grade_saved"
    /\ grades # <<>>

\* C31: when storing the session fails while a teacher selects a group, the
\* failure is reported to the teacher and the group menu is not shown: a
\* selection answered with the group menu has stored the session.
C31_StoreFailureSurfaced ==
    [][(reply'.handler = "select_group" /\ reply'.msg = "group_menu")
          => user_sessions'[reply'.to] # NoSession]_vars

\* C39: when set_user_session fails because the insert is rejected (the group
\* no longer exists), the principal's previous session row is still there and
\* unchanged: a group selection either stores a session on an existing group
\* or leaves the principal's session row exactly as it was.
C39_FailedStoreKeepsSession ==
    [][reply'.handler = "select_group"
          => \/ /\ user_sessions'[reply'.to] # NoSession
                /\ _get_group_by_id(user_sessions'[reply'.to].selected_group_id) # NoRow
             \/ user_sessions'[reply'.to] = user_sessions[reply'.to]]_vars

\* C32: role selection activates a role only if the latest resolution returned
\* it as eligible; any other selection activates nothing and leaves the
\* selection pending.  The pending roles are always those of the resolution
\* that stored them.
C32_OnlyEligibleRoleActivated ==
    [][/\ (reply'.handler = "_handle_role_selection" /\ reply'.msg = "welcome_role")
            => /\ user_data'[reply'.to].user_type
                      \in Range(user_data[reply'.to].available_roles)
               /\ user_data'[reply'.to].available_roles = <<>>
       /\ (reply'.handler = "_handle_role_selection" /\ reply'.msg = "wrong_choice")
            => /\ user_data' = user_data
               /\ user_data[reply'.to].available_roles # <<>>
       /\ \A u \in RoleUsers :
            (user_data'[u].available_roles # user_data[u].available_roles
               /\ user_data'[u].available_roles # <<>>)
            => /\ reply'.result.type = "dual_role"
               /\ reply'.result.roles = user_data'[u].available_roles
       /\ \A u \in RoleUsers :
            (user_data'[u].user_type # user_data[u].user_type
               /\ user_data[u].available_roles # <<>>
               /\ user_data'[u].user_type # NoRole)
            => reply'.handler = "_handle_role_selection"]_vars

\* a role offered by the resolution was selected and activated, after a
\* selection of a role that was not offered had been turned down
C32_RoleSelected ==
    /\ reply.handler = "_handle_role_selection"
    /\ reply.msg = "welcome_role"
    /\ user_data[reply.to].user_type = "student"
    /\ user_data[reply.to].available_roles = <<>>

\* C33: for every input, format_phone returns a plus sign followed by digits
\* only: no character that is neither a digit nor the leading plus survives.
C33_PlusThenDigits ==
    reply.handler = "format_phone"
        => /\ Len(reply.phone) >= 1
           /\ reply.phone[1] = "+"
           /\ \A i \in 2..Len(reply.phone) : IsDigit(reply.phone[i])

\* C34: a submission never stores more than the configured maximum number of
\* uploads.
C34_UploadsWithinMaximum ==
    \A i \in DOMAIN submissions : submissions[i].photos <= MAX_PHOTOS_PER_SUBMISSION

\* C35: in the command-based bot a student in the submission flow who has
\* uploaded at least one file and sends /done advances to the explanation
\* step.
C35_DoneAdvancesToExplanation ==
    [][(/\ reply'.handler \in {"teacher.handle_done_command",
                               "student.handle_done_command"}
        /\ user_data[reply'.to].conversation_state = "student_submit"
        /\ user_data[reply'.to].temp_data.step = "files"
        /\ user_data[reply'.to].temp_data.files >= 1)
          => user_data'[reply'.to].temp_data.step = "explanation"]_vars

\* C36: a teacher with a selected group who has started grading while the
\* group has an ungraded submission and who enters a score within the range
\* gets a grade recorded for the presented submission, which becomes graded.
C36_ValidScoreRecordsGrade ==
    [][(/\ reply.handler = "start_grading"
        /\ reply'.handler = "receive_grade"
        /\ reply'.to = reply.to
        /\ ~GradeRejected(reply'.num)
        /\ user_sessions[reply'.to].session_type = "grading"
        /\ UngradedOfGroup(submissions,
                           user_sessions[reply'.to].selected_group_id) # <<>>)
          => /\ Len(grades') = Len(grades) + 1
             /\ \E i \in DOMAIN submissions :
                    /\ submissions[i].id = reply'.sub
                    /\ ~submissions[i].is_graded
                    /\ submissions'[i].is_graded
                    /\ grades'[Len(grades')].submission_id = submissions[i].id]_vars

\* C37: completing or cancelling a teacher flow leaves the teacher's
\* authenticated role and phone in place: the step that creates the task or
\* cancels the creation changes neither user_type nor user_phone.
C37_FlowKeepsIdentity ==
    [][(/\ reply'.handler \in {"receive_task_description", "receive_task_photos"}
        /\ reply'.msg \in {"task_created", "cancelled"})
          => /\ user_data'[reply'.to].user_type = user_data[reply'.to].user_type
             /\ user_data'[reply'.to].user_phone = user_data[reply'.to].user_phone]_vars

\* C38: pressing the grade-later button during a grading session ends
\* grading: the session is cleared, so a number sent afterwards is not
\* treated as a grade.
C38_PauseEndsGrading ==
    [][(/\ reply'.text = "grade_later"
        /\ user_data[reply'.to].user_type = "teacher"
        /\ user_sessions[reply'.to].session_type = "grading")
          => user_sessions'[reply'.to] = NoSession]_vars

\* C40: whenever a teacher's session has a selected group, that group is
\* owned by that teacher.
C40_SelectedGroupOwned ==
    \A u \in Users :
        LET teacher == _get_teacher_by_phone(user_data[u].user_phone)
            group == _get_group_by_id(user_sessions[u].selected_group_id)
        IN  (/\ user_data[u].user_type = "teacher"
             /\ teacher # NoRow
             /\ user_sessions[u] # NoSession
             /\ group # NoRow)
              => group.teacher_id = teacher.id

====
